---- MODULE Spec2Model ----
(***************************************************************************)
(* womat/tadl: the DL-bus decoding pipeline (Manchester decoder, DL-bus    *)
(* framer, UVR42 parser, delta gate) as state machines.                    *)
(***************************************************************************)
EXTENDS Integers, Sequences, FiniteSets, TLC

VARIABLES
    \* dlbus.ReadCloser (the framer)
    syncCounter, state, rxBit, rxRegister, rxBuffer, rl,
    \* one goroutine executing ReadCloser.Read
    rdPc, rdN, rdErr, rdOut,
    \* history variables of the framer (not program state)
    lastFrame, curFrame, highRun, awaitRun, blockedBits, avail, dropped,
    replaced,
    \* the byte sequence put on the bus and the position in its bit stream
    B, feedIdx,
    \* manchester.Decoder
    mState, eventSamples, lastTimestamp, SignalT, lastPeriodTimestamp, Sensitivity,
    \* the symbols sent on Decoder.C and the samples handed to calcBitPeriods
    emitted, collected,
    \* the intervals that eventHandler computed for the last two events it took
    \* since it was synchronized, empty after any other event, and the last
    \* event it took (history variables)
    lastInterval, edge,
    \* the edge events of the line, the next one to deliver, the bits they
    \* encode after synchronization and the position of an inserted edge
    events, evIdx, expected, spurious,
    \* datalogger.UVR42Handler and App: the parser, the snapshot, the gate
    lastValue, DataFrame, mqttData, now, sendq, pubq, broker, got,
    \* config.MQTT and what the ReadCloser hands over in this run
    config, readable,
    \* raspberry.Line: the channel C, whether it is open, the handler's
    \* lastEvent and the debounce period of the line
    lineC, lineOpen, lastEvent, debounce,
    \* the goroutines Decoder.run and ReadCloser.run, the symbol Decoder.run
    \* is sending on Decoder.C, and App.Close: its position, the call of
    \* ReadCloser.Close it is in and whether ReadCloser.quit is open
    dPc, dOut, fPc, cPc, cCall, quitOpen,
    \* the events sent on Line.C so far (history variable)
    sent,
    \* the last answer of HandleData, the number of answers (up to 2) since a
    \* Get last succeeded, and the frame of the last successful Get (history
    \* variables)
    snap, reads, lastOk

framerVars == <<syncCounter, state, rxBit, rxRegister, rxBuffer, rl>>
readerVars == <<rdPc, rdN, rdErr, rdOut>>
ghostVars  == <<lastFrame, curFrame, highRun, awaitRun, blockedBits, avail,
               dropped, replaced>>
feedVars   == <<B, feedIdx>>
decVars    == <<mState, eventSamples, lastTimestamp, SignalT, lastPeriodTimestamp,
               Sensitivity>>
lineVars   == <<emitted, collected, lastInterval, edge, events, evIdx, expected,
               spurious>>
pipeVars   == <<lineC, lineOpen, lastEvent, debounce, dPc, dOut, fPc, cPc,
               cCall, quitOpen, sent>>
manVars    == <<decVars, lineVars, pipeVars>>
webVars    == <<snap, reads, lastOk>>
appVars    == <<lastValue, DataFrame, mqttData, now, sendq, pubq, broker, got,
               config, readable, webVars>>
vars == <<framerVars, readerVars, ghostVars, feedVars, manVars, appVars>>

----------------------------------------------------------------------------
\* port.StateType
High == 1
Low == 0
Invalid == -1

\* number of consecutive high bits of a sync sequence
SyncBits == 16
\* size of the buffer UVR42Handler.Get hands to Read
ReadBufSize == 64

\* bounds of the model
MaxSync == 16        \* High symbols counted while synchronizing
MaxFrameBytes == 2   \* bytes of one frame
\* the data bit positions (rxBit) at which the bus sends High, in the first
\* two bytes of a frame: bytes 0x00, 0x10
HighDataBits == {5}
MaxB == 2            \* bytes of an encoded frame

Min(a, b) == IF a < b THEN a ELSE b

RECURSIVE Pow2(_)
Pow2(n) == IF n = 0 THEN 1 ELSE 2 * Pow2(n - 1)

\* rxRegister |= 1 << k   (rxRegister is a byte)
SetBit(reg, k) ==
    IF (reg \div Pow2(k)) % 2 = 1 THEN reg ELSE (reg + Pow2(k)) % 256

----------------------------------------------------------------------------
(* The framer, dlbus.ReadCloser.  Its methods are functions from the       *)
(* record of its fields to the record after the call.                      *)

Framer == [syncCounter |-> syncCounter, state |-> state, rxBit |-> rxBit,
           rxRegister |-> rxRegister, rxBuffer |-> rxBuffer, rl |-> rl]

NewReader == [syncCounter |-> 0, state |-> "synchronizing", rxBit |-> 0,
              rxRegister |-> 0, rxBuffer |-> <<>>, rl |-> "free"]

\* reset that keeps the bytes of the buffer
reset_mutKeepBuffer(r) ==
    LET r1 == [r EXCEPT !.syncCounter = 0]
    IN  IF r.state = "synchronized"
        THEN [r1 EXCEPT !.rl = "free", !.state = "synchronizing"]
        ELSE r1

\* reset that truncates the buffer only while the framer holds rl
reset_mutUnderLockOnly(r) ==
    IF r.state = "synchronized"
    THEN [r EXCEPT !.rxBuffer = <<>>, !.syncCounter = 0, !.rl = "free",
                   !.state = "synchronizing"]
    ELSE [r EXCEPT !.syncCounter = 0]

\* reset restarts synchronizing
reset(r) ==
    LET r1 == [r EXCEPT !.rxBuffer = <<>>, !.syncCounter = 0]
    IN  IF r.state = "synchronized"
        THEN [r1 EXCEPT !.rl = "free", !.state = "synchronizing"]
        ELSE r1

\* high that does not count the High that completes the frame
high_mutSyncZero(r) ==
    CASE r.rxBit = 0 ->
            [r EXCEPT !.state = "synchronizing", !.syncCounter = 0, !.rl = "free"]
      [] r.rxBit = 9 ->
            [r EXCEPT !.rxBuffer = Append(r.rxBuffer, r.rxRegister), !.rxBit = 0]
      [] OTHER ->
            [r EXCEPT !.rxRegister = SetBit(r.rxRegister, r.rxBit - 1),
                      !.rxBit = r.rxBit + 1]

\* high that keeps rl locked when the frame is complete
high_mutNoUnlock(r) ==
    CASE r.rxBit = 0 ->
            [r EXCEPT !.state = "synchronizing", !.syncCounter = 1]
      [] r.rxBit = 9 ->
            [r EXCEPT !.rxBuffer = Append(r.rxBuffer, r.rxRegister), !.rxBit = 0]
      [] OTHER ->
            [r EXCEPT !.rxRegister = SetBit(r.rxRegister, r.rxBit - 1),
                      !.rxBit = r.rxBit + 1]

\* high handles high data bits, stop bits and the start of a sync sequence
high(r) ==
    CASE r.rxBit = 0 ->
            [r EXCEPT !.state = "synchronizing", !.syncCounter = 1, !.rl = "free"]
      [] r.rxBit = 9 ->
            [r EXCEPT !.rxBuffer = Append(r.rxBuffer, r.rxRegister), !.rxBit = 0]
      [] OTHER ->
            [r EXCEPT !.rxRegister = SetBit(r.rxRegister, r.rxBit - 1),
                      !.rxBit = r.rxBit + 1]

\* low that drops only the byte with the missing stop bit
low_mutKeepFrame(r) ==
    CASE r.rxBit = 0 -> [r EXCEPT !.rxRegister = 0, !.rxBit = 1]
      [] r.rxBit = 9 -> [r EXCEPT !.rxBit = 0]
      [] OTHER -> [r EXCEPT !.rxBit = r.rxBit + 1]

\* low that does not check for the stop bit
low_mutNoStopCheck(r) ==
    CASE r.rxBit = 0 -> [r EXCEPT !.rxRegister = 0, !.rxBit = 1]
      [] OTHER -> [r EXCEPT !.rxBit = r.rxBit + 1]

\* low that does not clear rxRegister on a start bit
low_mutKeepRegister(r) ==
    CASE r.rxBit = 0 -> [r EXCEPT !.rxBit = 1]
      [] r.rxBit = 9 -> reset(r)
      [] OTHER -> [r EXCEPT !.rxBit = r.rxBit + 1]

\* low handles start bits and low data bits
low(r) ==
    CASE r.rxBit = 0 -> [r EXCEPT !.rxRegister = 0, !.rxBit = 1]
      [] r.rxBit = 9 -> reset(r)
      [] OTHER -> [r EXCEPT !.rxBit = r.rxBit + 1]

\* decoder blocks in rl.Lock() while a reader holds the mutex
decoderBlocked(r, bit) ==
    /\ r.state = "synchronizing"
    /\ bit = Low
    /\ r.syncCounter >= SyncBits
    /\ r.rl # "free"

\* decoder that takes 15 High symbols for a sync sequence
decoder_mutSync15(r, bit) ==
    IF r.state = "synchronizing"
    THEN IF bit = High
         THEN [r EXCEPT !.syncCounter = r.syncCounter + 1]
         ELSE IF r.syncCounter < SyncBits - 1
              THEN [r EXCEPT !.syncCounter = 0]
              ELSE low([r EXCEPT !.rl = "framer", !.state = "synchronized",
                                 !.rxBit = 0, !.rxBuffer = <<>>])
    ELSE IF bit = High THEN high(r) ELSE low(r)

\* decoder that keeps the old buffer when a frame starts
decoder_mutKeepBuffer(r, bit) ==
    IF r.state = "synchronizing"
    THEN IF bit = High
         THEN [r EXCEPT !.syncCounter = r.syncCounter + 1]
         ELSE IF r.syncCounter < SyncBits
              THEN [r EXCEPT !.syncCounter = 0]
              ELSE low([r EXCEPT !.rl = "framer", !.state = "synchronized",
                                 !.rxBit = 0])
    ELSE IF bit = High THEN high(r) ELSE low(r)

\* decoder decodes the dlbus dataframe
decoder(r, bit) ==
    IF r.state = "synchronizing"
    THEN IF bit = High
         THEN [r EXCEPT !.syncCounter = r.syncCounter + 1]
         ELSE IF r.syncCounter < SyncBits
              THEN [r EXCEPT !.syncCounter = 0]
              ELSE low([r EXCEPT !.rl = "framer", !.state = "synchronized",
                                 !.rxBit = 0, !.rxBuffer = <<>>])
    ELSE IF bit = High THEN high(r) ELSE low(r)

\* one iteration of run: a symbol received on rx
run(r, b) == IF b = Invalid THEN reset(r) ELSE decoder(r, b)

----------------------------------------------------------------------------
(* One symbol taken from the channel by the framer goroutine, with the     *)
(* history variables that observe it.                                      *)

FramerUpdate(b) ==
    /\ ~decoderBlocked(Framer, b)
    /\ LET n == run(Framer, b)
           appended == Len(n.rxBuffer) = Len(rxBuffer) + 1
           started == state = "synchronizing" /\ n.state = "synchronized"
           ended == state = "synchronized" /\ n.state = "synchronizing"
           cur == IF started THEN <<>>
                  ELSE IF appended THEN Append(curFrame, n.rxBuffer[Len(n.rxBuffer)])
                  ELSE curFrame
       IN  /\ syncCounter' = n.syncCounter
           /\ state' = n.state
           /\ rxBit' = n.rxBit
           /\ rxRegister' = n.rxRegister
           /\ rxBuffer' = n.rxBuffer
           /\ rl' = n.rl
           /\ curFrame' = IF ended THEN <<>> ELSE cur
           /\ lastFrame' = IF ended /\ b = High THEN curFrame ELSE lastFrame
           /\ dropped' = IF started THEN avail ELSE dropped
           /\ replaced' = IF ended /\ b = High
                          THEN dropped /\ lastFrame # curFrame
                          ELSE replaced
           /\ highRun' = IF b = High THEN Min(highRun + 1, SyncBits) ELSE 0
           /\ awaitRun' = IF b = High /\ n.state = "synchronizing"
                          THEN (IF state = "synchronizing"
                                THEN Min(awaitRun + 1, SyncBits) ELSE 1)
                          ELSE 0
           /\ blockedBits' = IF started THEN 0
                             ELSE IF rdPc = "lock" /\ rl = "framer"
                                  THEN blockedBits + 1
                                  ELSE blockedBits
           /\ avail' = IF ended THEN b = High
                       ELSE IF started \/ b = Invalid THEN FALSE
                       ELSE avail

\* the framer goroutine alone takes a step
FramerStep(b) ==
    /\ FramerUpdate(b)
    /\ UNCHANGED <<readerVars, manVars, appVars>>

\* the symbols the bus may deliver within the bounds of the model
BusAllows(b) ==
    b = High =>
        /\ state = "synchronizing" => syncCounter < MaxSync
        /\ (state = "synchronized" /\ rxBit \in 1..8) =>
              (rxBit \in HighDataBits /\ Len(rxBuffer) < 2)
        /\ (state = "synchronized" /\ rxBit = 9) => Len(rxBuffer) < MaxFrameBytes

\* a symbol sent by the Manchester decoder
Receive ==
    /\ \E b \in {High, Low, Invalid} :
          /\ BusAllows(b)
          /\ FramerStep(b)
    /\ UNCHANGED feedVars

----------------------------------------------------------------------------
(* ReadCloser.Read, statement by statement: the framer's reset writes      *)
(* rxBuffer without holding rl, so the statements of Read interleave with  *)
(* it.                                                                     *)

ReadCall ==
    /\ rdPc = "idle"
    /\ rdPc' = "lock"
    /\ UNCHANGED <<framerVars, rdN, rdErr, rdOut, ghostVars, feedVars, manVars, appVars>>

\* r.rl.Lock()
ReadLock ==
    /\ rdPc = "lock"
    /\ rl = "free"
    /\ rl' = "reader"
    /\ rdPc' = "check"
    /\ blockedBits' = 0
    /\ UNCHANGED <<syncCounter, state, rxBit, rxRegister, rxBuffer,
                   rdN, rdErr, rdOut, lastFrame, curFrame, highRun, awaitRun,
                   avail, dropped, replaced, feedVars, manVars, appVars>>

\* if len(r.rxBuffer) == 0 { return 0, io.EOF }
ReadCheck ==
    /\ rdPc = "check"
    /\ IF Len(rxBuffer) = 0
       THEN /\ rdN' = 0
            /\ rdErr' = "EOF"
            /\ rdPc' = "unlock"
       ELSE /\ rdPc' = "copy"
            /\ UNCHANGED <<rdN, rdErr>>
    /\ UNCHANGED <<framerVars, rdOut, ghostVars, feedVars, manVars, appVars>>

\* n := copy(b, r.rxBuffer)
ReadCopy ==
    /\ rdPc = "copy"
    /\ rdN' = Min(ReadBufSize, Len(rxBuffer))
    /\ rdOut' = SubSeq(rxBuffer, 1, Min(ReadBufSize, Len(rxBuffer)))
    /\ rdPc' = "clear"
    /\ avail' = IF Len(rxBuffer) > 0 THEN FALSE ELSE avail
    /\ UNCHANGED <<framerVars, rdErr, lastFrame, curFrame, highRun, awaitRun,
                   blockedBits, dropped, replaced, feedVars, manVars, appVars>>

\* Read that leaves the frame in the buffer
ReadClear_mutKeepFrame ==
    /\ rdPc = "clear"
    /\ rdErr' = "nil"
    /\ rdPc' = "unlock"
    /\ UNCHANGED <<framerVars, rdN, rdOut, ghostVars, feedVars, manVars, appVars>>

\* r.rxBuffer = r.rxBuffer[0:0]; return n, nil
ReadClear ==
    /\ rdPc = "clear"
    /\ rxBuffer' = <<>>
    /\ rdErr' = "nil"
    /\ rdPc' = "unlock"
    /\ UNCHANGED <<syncCounter, state, rxBit, rxRegister, rl,
                   rdN, rdOut, ghostVars, feedVars, manVars, appVars>>

\* defer r.rl.Unlock(): Read returns (rdN, rdErr) and rdOut in b
ReadUnlock ==
    /\ rdPc = "unlock"
    /\ rl' = "free"
    /\ rdPc' = "idle"
    /\ rdN' = 0
    /\ rdErr' = "none"
    /\ rdOut' = <<>>
    /\ UNCHANGED <<syncCounter, state, rxBit, rxRegister, rxBuffer,
                   ghostVars, feedVars, manVars, appVars>>

Read == ReadCall \/ ReadLock \/ ReadCheck \/ ReadCopy \/ ReadClear \/ ReadUnlock

----------------------------------------------------------------------------
InitFramer ==
    /\ syncCounter = NewReader.syncCounter
    /\ state = NewReader.state
    /\ rxBit = NewReader.rxBit
    /\ rxRegister = NewReader.rxRegister
    /\ rxBuffer = NewReader.rxBuffer
    /\ rl = NewReader.rl
    /\ rdPc = "idle"
    /\ rdN = 0
    /\ rdErr = "none"
    /\ rdOut = <<>>
    /\ lastFrame = <<>>
    /\ dropped = FALSE
    /\ replaced = FALSE
    /\ curFrame = <<>>
    /\ highRun = 0
    /\ awaitRun = 0
    /\ blockedBits = 0
    /\ avail = FALSE


----------------------------------------------------------------------------
(* The bus carrying one byte sequence B: a sync sequence of 16 High, then  *)
(* per byte a Low start bit, eight data bits LSB first and a High stop     *)
(* bit, then the next sync sequence; the controller repeats the frame.     *)

ByteVals == {0, 1, 16, 165, 255}

BitOf(byte, i) == IF (byte \div Pow2(i)) % 2 = 1 THEN High ELSE Low

\* the symbol at position i (from 1) of the stream that carries bytes twice:
\* 16 High, the framed bytes, 16 High, the framed bytes, 16 High
StreamAt(bytes, i) ==
    LET period == SyncBits + 10 * Len(bytes)
        j == (i - 1) % period
        k == j - SyncBits
    IN  IF i > 2 * period \/ j < SyncBits THEN High
        ELSE IF k % 10 = 0 THEN Low
        ELSE IF k % 10 = 9 THEN High
        ELSE BitOf(bytes[(k \div 10) + 1], (k % 10) - 1)

StreamLen(bytes) == 3 * SyncBits + 20 * Len(bytes)

\* number of symbols up to and including the High that completes the first frame
FirstEnd(bytes) == SyncBits + 10 * Len(bytes) + 1

\* the framer takes the next symbol of the stream
Feed ==
    /\ feedIdx <= StreamLen(B)
    /\ FramerStep(StreamAt(B, feedIdx))
    /\ feedIdx' = feedIdx + 1
    /\ B' = B

FeedRead == Read


----------------------------------------------------------------------------
(* The Manchester decoder, manchester.Decoder.                             *)

\* port.EventType
RisingEdge == 1
FallingEdge == 2

\* eventSamples, the count of samples for the bit periods (500), reduced
NSamples == 4

\* Go's integer division truncates toward zero
TruncDiv(a, b) == IF a >= 0 THEN a \div b ELSE -((-a) \div b)

Decoder == [state |-> mState, eventSamples |-> eventSamples,
            lastTimestamp |-> lastTimestamp, SignalT |-> SignalT,
            lastPeriodTimestamp |-> lastPeriodTimestamp,
            Sensitivity |-> Sensitivity]

\* New: every field but state and eventSamples has its zero value
New == [state |-> "discoverClock", eventSamples |-> <<>>, lastTimestamp |-> 0,
        SignalT |-> 0, lastPeriodTimestamp |-> 0, Sensitivity |-> 0]

\* sort.Slice(samples, less)
RECURSIVE insertSorted(_, _)
insertSorted(x, sorted) ==
    IF sorted = <<>> THEN <<x>>
    ELSE IF x <= Head(sorted) THEN <<x>> \o sorted
    ELSE <<Head(sorted)>> \o insertSorted(x, Tail(sorted))

RECURSIVE sortSlice(_)
sortSlice(q) == IF q = <<>> THEN <<>> ELSE insertSorted(Head(q), sortSlice(Tail(q)))

\* the loop of calcBitPeriods taking intervals up to 250% of a half bit period
\* for half bit periods
RECURSIVE calcLoop_mutThreshold(_, _, _)
calcLoop_mutThreshold(samples, i, acc) ==
    IF i > Len(samples) THEN acc
    ELSE LET t == samples[i]
         IN  IF t > 2 * acc.half + acc.half \div 2
             THEN calcLoop_mutThreshold(samples, i + 1,
                           [acc EXCEPT !.fullSum = acc.fullSum + t,
                                       !.full = (acc.fullSum + t) \div acc.ixFull,
                                       !.ixFull = acc.ixFull + 1])
             ELSE calcLoop_mutThreshold(samples, i + 1,
                           [acc EXCEPT !.halfSum = acc.halfSum + t,
                                       !.half = (acc.halfSum + t) \div acc.ixHalf,
                                       !.ixHalf = acc.ixHalf + 1])

\* the loop of calcBitPeriods comparing every sample with 150% of the first
\* one
RECURSIVE calcLoop_mutFirstSample(_, _, _)
calcLoop_mutFirstSample(samples, i, acc) ==
    IF i > Len(samples) THEN acc
    ELSE LET t == samples[i]
         IN  IF t > samples[1] + samples[1] \div 2
             THEN calcLoop_mutFirstSample(samples, i + 1,
                           [acc EXCEPT !.fullSum = acc.fullSum + t,
                                       !.full = (acc.fullSum + t) \div acc.ixFull,
                                       !.ixFull = acc.ixFull + 1])
             ELSE calcLoop_mutFirstSample(samples, i + 1,
                           [acc EXCEPT !.halfSum = acc.halfSum + t,
                                       !.half = (acc.halfSum + t) \div acc.ixHalf,
                                       !.ixHalf = acc.ixHalf + 1])

\* the loop of calcBitPeriods over the sorted samples from index i on
RECURSIVE calcLoop(_, _, _)
calcLoop(samples, i, acc) ==
    IF i > Len(samples) THEN acc
    ELSE LET t == samples[i]
         IN  IF t > acc.half + acc.half \div 2
             THEN calcLoop(samples, i + 1,
                           [acc EXCEPT !.fullSum = acc.fullSum + t,
                                       !.full = (acc.fullSum + t) \div acc.ixFull,
                                       !.ixFull = acc.ixFull + 1])
             ELSE calcLoop(samples, i + 1,
                           [acc EXCEPT !.halfSum = acc.halfSum + t,
                                       !.half = (acc.halfSum + t) \div acc.ixHalf,
                                       !.ixHalf = acc.ixHalf + 1])

\* calcBitPeriods calculates the bit periods from the event samples
calcBitPeriods(samples) ==
    LET sorted == sortSlice(samples)
        kept == SubSeq(sorted, 2, Len(sorted) - 1)
        acc == calcLoop(kept, 1,
                        [half |-> kept[1], full |-> kept[1] * 2,
                         halfSum |-> 0, fullSum |-> 0, ixHalf |-> 1, ixFull |-> 1])
    IN  [half |-> acc.half, full |-> acc.full]

\* half of SignalT taken for the sensitivity
sensitivityOf_mutHalf(t) == t \div 2

\* time.Duration(float64(d.SignalT) * SensitivityFactor), SensitivityFactor 0.6
sensitivityOf(t) == (t * 6) \div 10

\* the symbol sent for an edge at a bit boundary, rising edges taken for High
edgeSymbol_mutSwapped(ty) ==
    IF ty = RisingEdge THEN <<High>>
    ELSE IF ty = FallingEdge THEN <<Low>>
    ELSE <<>>

\* switch event.Type: the symbol sent for an edge at a bit boundary
edgeSymbol(ty) ==
    IF ty = RisingEdge THEN <<Low>>
    ELSE IF ty = FallingEdge THEN <<High>>
    ELSE <<>>

\* the case synchronized of eventHandler staying synchronized, with a symbol
\* Low, on an interval of 4
decodeEdge_mutFourIsLegal(d, event) ==
    LET duration == event.Timestamp - d.lastPeriodTimestamp
        interval == TruncDiv(duration - d.Sensitivity, d.SignalT) + 1
        d1 == [d EXCEPT !.lastTimestamp = event.Timestamp]
    IN  CASE interval = 2 ->
               [d |-> [d1 EXCEPT !.lastPeriodTimestamp = event.Timestamp],
                out |-> <<>>]
          [] interval \in {1, 3} ->
               [d |-> [d1 EXCEPT !.lastPeriodTimestamp =
                                     event.Timestamp - d.SignalT],
                out |-> edgeSymbol(event.Type)]
          [] interval = 4 ->
               [d |-> d1, out |-> <<Low>>]
          [] OTHER ->
               [d |-> [d1 EXCEPT !.state = "synchronizing"],
                out |-> <<Invalid>>]

\* the case synchronized of eventHandler
decodeEdge(d, event) ==
    LET duration == event.Timestamp - d.lastPeriodTimestamp
        interval == TruncDiv(duration - d.Sensitivity, d.SignalT) + 1
        d1 == [d EXCEPT !.lastTimestamp = event.Timestamp]
    IN  CASE interval = 2 ->
               [d |-> [d1 EXCEPT !.lastPeriodTimestamp = event.Timestamp],
                out |-> <<>>]
          [] interval \in {1, 3} ->
               [d |-> [d1 EXCEPT !.lastPeriodTimestamp =
                                     event.Timestamp - d.SignalT],
                out |-> edgeSymbol(event.Type)]
          [] OTHER ->
               [d |-> [d1 EXCEPT !.state = "synchronizing"],
                out |-> <<Invalid>>]

\* eventHandler decodes one line event; out is what it sends on d.C
eventHandler(d, event) ==
    LET period == event.Timestamp - d.lastTimestamp
        d1 == [d EXCEPT !.lastTimestamp = event.Timestamp]
    IN  CASE d.state = "discoverClock" ->
               IF Len(d.eventSamples) < NSamples
               THEN LET smp == Append(d.eventSamples, period)
                    IN  IF Len(smp) = NSamples
                        THEN [d |-> [d1 EXCEPT !.SignalT = calcBitPeriods(smp).half,
                                               !.Sensitivity =
                                                   sensitivityOf(calcBitPeriods(smp).half),
                                               !.state = "synchronizing",
                                               !.eventSamples = <<>>],
                              out |-> <<>>]
                        ELSE [d |-> [d1 EXCEPT !.eventSamples = smp], out |-> <<>>]
               ELSE [d |-> d1, out |-> <<>>]
          [] d.state = "synchronizing" ->
               LET interval == TruncDiv(period - d.Sensitivity, d.SignalT)
               IN  IF interval > 0 /\ event.Type = FallingEdge
                   THEN [d |-> [d1 EXCEPT !.lastPeriodTimestamp =
                                              event.Timestamp - d.SignalT,
                                          !.state = "synchronized"],
                         out |-> <<>>]
                   ELSE [d |-> d1, out |-> <<>>]
          [] d.state = "synchronized" -> decodeEdge(d, event)

\* interval as eventHandler computes it while synchronized
intervalOf(d, event) ==
    TruncDiv(event.Timestamp - d.lastPeriodTimestamp - d.Sensitivity, d.SignalT) + 1

\* the decoder goroutine takes one event from rx
HandleEvent(event) ==
    LET n == eventHandler(Decoder, event)
    IN  /\ mState' = n.d.state
        /\ lastInterval' =
              IF mState = "synchronized"
              THEN IF Len(lastInterval) = 2
                   THEN <<lastInterval[2], intervalOf(Decoder, event)>>
                   ELSE Append(lastInterval, intervalOf(Decoder, event))
              ELSE <<>>
        /\ edge' = event
        /\ eventSamples' = n.d.eventSamples
        /\ lastTimestamp' = n.d.lastTimestamp
        /\ SignalT' = n.d.SignalT
        /\ lastPeriodTimestamp' = n.d.lastPeriodTimestamp
        /\ Sensitivity' = n.d.Sensitivity
        /\ emitted' = emitted \o n.out
        /\ collected' = IF mState = "discoverClock" /\ n.d.state = "synchronizing"
                        THEN Append(eventSamples, event.Timestamp - lastTimestamp)
                        ELSE collected

InitDecoder ==
    /\ mState = New.state
    /\ eventSamples = New.eventSamples
    /\ lastTimestamp = New.lastTimestamp
    /\ SignalT = New.SignalT
    /\ lastPeriodTimestamp = New.lastPeriodTimestamp
    /\ Sensitivity = New.Sensitivity
    /\ emitted = <<>>
    /\ collected = <<>>
    /\ lastInterval = <<>>
    /\ edge = [Timestamp |-> 0, Type |-> RisingEdge]

InitNoLine ==
    /\ events = <<>>
    /\ evIdx = 0
    /\ expected = <<>>
    /\ spurious = 0

----------------------------------------------------------------------------
(* The line: edge events with integer timestamps.                          *)

\* the true half-bit period of the line
HalfT == 20
\* bits between synchronization and the sync sequence
PayloadLen == 3

Abs(x) == IF x < 0 THEN -x ELSE x

\* intervals within 5% of a half-bit and of a full-bit period
HalfPeriods == {p \in 1..(3 * HalfT) : 20 * Abs(p - HalfT) <= HalfT}
FullPeriods == {p \in 1..(3 * HalfT) : 20 * Abs(p - 2 * HalfT) <= 2 * HalfT}

\* an edge arrives while the clock is being discovered
ClockEdge ==
    /\ mState = "discoverClock"
    /\ \E p \in HalfPeriods \cup FullPeriods, ty \in {RisingEdge, FallingEdge} :
          HandleEvent([Timestamp |-> lastTimestamp + p, Type |-> ty])
    /\ UNCHANGED <<framerVars, readerVars, ghostVars, feedVars, appVars,
                   events, evIdx, expected, spurious, pipeVars>>

\* Manchester code of a bit: the edge in the middle of the bit period
MidEdge(bit) == IF bit = High THEN FallingEdge ELSE RisingEdge
Opposite(ty) == IF ty = RisingEdge THEN FallingEdge ELSE RisingEdge

\* the edges of bits k.. : bit k starts at 2T(k-1), with an edge at its start
\* when it repeats the bit before it and an edge in its middle
RECURSIVE EdgesFrom(_, _)
EdgesFrom(bits, k) ==
    IF k > Len(bits) THEN <<>>
    ELSE LET start == 2 * HalfT * (k - 1)
             mid == [Timestamp |-> start + HalfT, Type |-> MidEdge(bits[k])]
             bnd == [Timestamp |-> start, Type |-> Opposite(MidEdge(bits[k]))]
         IN  (IF k > 1 /\ bits[k] = bits[k - 1] THEN <<bnd, mid>> ELSE <<mid>>)
                 \o EdgesFrom(bits, k + 1)

\* bits that let the decoder discover the clock and synchronize (on the mid
\* edge of the last one)
Preamble == <<High, High, High, High, Low, High>>
SyncSeq == [i \in 1..SyncBits |-> High]
Trailer == <<Low, High>>

LineBits(payload) == Preamble \o payload \o SyncSeq \o Trailer
ExpectedBits(payload) == payload \o SyncSeq \o Trailer

\* the time of the edge the decoder synchronizes on, and the end of the payload
SyncTime == 2 * HalfT * (Len(Preamble) - 1) + HalfT
PayloadEnd == 2 * HalfT * (Len(Preamble) + PayloadLen)

\* the offsets at which an extra edge is inserted after an edge
Offsets == {o \in 1..(2 * HalfT) : o % (HalfT \div 4) = 0}

InsertAt(evs, pos, e) == SubSeq(evs, 1, pos) \o <<e>> \o SubSeq(evs, pos + 1, Len(evs))

InitLine ==
    \E payload \in [1..PayloadLen -> {High, Low}] :
        LET evs == EdgesFrom(LineBits(payload), 1)
        IN  /\ expected = ExpectedBits(payload)
            /\ evIdx = 1
            /\ \/ /\ events = evs
                  /\ spurious = 0
               \/ \E pos \in 1..(Len(evs) - 1), o \in Offsets,
                     ty \in {RisingEdge, FallingEdge} :
                     /\ evs[pos].Timestamp >= SyncTime
                     /\ evs[pos + 1].Timestamp <= PayloadEnd + HalfT
                     /\ evs[pos].Timestamp + o < evs[pos + 1].Timestamp
                     /\ events = InsertAt(evs, pos,
                                          [Timestamp |-> evs[pos].Timestamp + o,
                                           Type |-> ty])
                     /\ spurious = pos + 1

\* the next edge of the line reaches the decoder
LineEdge ==
    /\ evIdx >= 1
    /\ evIdx <= Len(events)
    /\ HandleEvent(events[evIdx])
    /\ evIdx' = evIdx + 1
    /\ UNCHANGED <<framerVars, readerVars, ghostVars, feedVars, appVars,
                   events, expected, spurious, pipeVars>>

\* the number of samples handed to calcBitPeriods (500), reduced
CalcLen == 5
\* samples between one and four times the shortest, in steps that let the
\* mean of the half bit periods move
SampleVals == {10, 14, 18, 22, 40}

\* the event that completes the samples: calcBitPeriods on any samples
CalcEdge ==
    /\ mState = "discoverClock"
    /\ \E samples \in [1..CalcLen -> SampleVals] :
          /\ collected' = samples
          /\ SignalT' = calcBitPeriods(samples).half
          /\ Sensitivity' = sensitivityOf(calcBitPeriods(samples).half)
          /\ mState' = "synchronizing"
    /\ UNCHANGED <<framerVars, readerVars, ghostVars, feedVars, appVars,
                   eventSamples, lastTimestamp, lastPeriodTimestamp, emitted,
                   lastInterval, edge, events, evIdx, expected, spurious,
                   pipeVars>>

\* the latest timestamp of an edge and the most symbols followed
MaxTime == 280
MaxEmit == 2

\* the time from one edge to the next: half and full bit periods while the
\* clock is discovered, afterwards also three and four half-bit periods and
\* a timestamp that lies before the last one
EdgePeriods(st) ==
    IF st = "discoverClock" THEN {HalfT, 2 * HalfT}
    ELSE {HalfT, 2 * HalfT, 3 * HalfT, 4 * HalfT, -(2 * HalfT)}

\* an edge of any polarity arrives at any distance from the one before
AnyEdge ==
    /\ lastTimestamp < MaxTime
    /\ Len(emitted) < MaxEmit
    /\ \E p \in EdgePeriods(mState), ty \in {RisingEdge, FallingEdge} :
          /\ lastTimestamp + p >= 0
          /\ HandleEvent([Timestamp |-> lastTimestamp + p, Type |-> ty])
    /\ UNCHANGED <<framerVars, readerVars, ghostVars, feedVars, appVars,
                   events, evIdx, expected, spurious, pipeVars>>

----------------------------------------------------------------------------
(* The goroutines of the pipeline and their channels: the event handler of *)
(* raspberry.Line sending on Line.C, Decoder.run receiving from it and     *)
(* sending on Decoder.C, ReadCloser.run receiving from that, and App.Close.*)
(* A send on an unbuffered channel is one step of sender and receiver.     *)

\* capacity of Line.C (100), reduced
LineCap == 2

\* the process has not died of a panic or of a fatal error
alive == cPc \notin {"panic", "fatal"} /\ fPc # "fatal" /\ rdPc # "fatal"

\* the event handler of NewLine: the test of the debounce period only counts
\* and logs (its return is commented out), then the event is sent on C
handler(l, evt) ==
    [l EXCEPT !.lastEvent = evt.Timestamp,
              !.C = Append(l.C, [Timestamp |-> evt.Timestamp, Type |-> evt.Type])]

\* gpiod calls the handler with the next event of the line; the handler
\* blocks in its send while C is full
EdgeHandler ==
    /\ alive
    /\ lineOpen
    /\ evIdx >= 1
    /\ evIdx <= Len(events)
    /\ Len(lineC) < LineCap
    /\ LET l == handler([C |-> lineC, lastEvent |-> lastEvent], events[evIdx])
       IN  /\ lineC' = l.C
           /\ lastEvent' = l.lastEvent
           /\ sent' = Append(sent, events[evIdx])
    /\ evIdx' = evIdx + 1
    /\ UNCHANGED <<framerVars, readerVars, ghostVars, feedVars, appVars, decVars,
                   emitted, collected, lastInterval, edge, events,
                   expected, spurious,
                   lineOpen, debounce, dPc, dOut, fPc, cPc, cCall, quitOpen>>

\* Line.Close: the line is released (no further call of the handler) and C
\* is closed
LineClose ==
    /\ alive
    /\ lineOpen
    /\ lineOpen' = FALSE
    /\ UNCHANGED <<framerVars, readerVars, ghostVars, feedVars, appVars, decVars,
                   lineVars, lineC, lastEvent, debounce, dPc, dOut, fPc, cPc,
                   cCall, quitOpen, sent>>

\* Decoder.run at its select: nothing is ever sent on Decoder.quit
\* (Decoder.Close is not called), so it receives from rx.  An event goes to
\* eventHandler, which sends at most one symbol on Decoder.C; when rx is
\* closed and empty, run sends on its own unbuffered quit channel, where no
\* goroutine receives.
DecoderRun ==
    /\ alive
    /\ dPc = "select"
    /\ IF lineC # <<>>
       THEN /\ HandleEvent(Head(lineC))
            /\ lineC' = Tail(lineC)
            /\ dOut' = eventHandler(Decoder, Head(lineC)).out
            /\ dPc' = IF eventHandler(Decoder, Head(lineC)).out = <<>>
                      THEN "select" ELSE "send"
       ELSE /\ ~lineOpen
            /\ dPc' = "quit"
            /\ UNCHANGED <<decVars, emitted, collected, lastInterval, edge, lineC,
                         dOut>>
    /\ UNCHANGED <<framerVars, readerVars, ghostVars, feedVars, appVars,
                   events, evIdx, expected, spurious,
                   lineOpen, lastEvent, debounce, fPc, cPc, cCall, quitOpen, sent>>

\* ReadCloser.run receives the symbol Decoder.run is sending; an Unlock of
\* rl while it is not locked is a fatal error of the runtime
FramerRecv ==
    /\ alive
    /\ fPc = "select"
    /\ dPc = "send"
    /\ FramerUpdate(dOut[1])
    /\ fPc' = IF state = "synchronized" /\ rl = "free"
                 /\ run(Framer, dOut[1]).state = "synchronizing"
              THEN "fatal" ELSE "select"
    /\ dPc' = "select"
    /\ dOut' = <<>>
    /\ UNCHANGED <<readerVars, feedVars, appVars, decVars, lineVars,
                   lineC, lineOpen, lastEvent, debounce, cPc, cCall, quitOpen, sent>>

\* the shutdown signal: App.Close starts; after mqtt.Close it calls dl.Close,
\* which is ReadCloser.Close of app.dlbus
CloseCall ==
    /\ alive
    /\ cPc = "idle"
    /\ cPc' = "buffer"
    /\ cCall' = 1
    /\ UNCHANGED <<framerVars, readerVars, ghostVars, feedVars, appVars, decVars,
                   lineVars, lineC, lineOpen, lastEvent, debounce, dPc, dOut, fPc,
                   quitOpen, sent>>

\* ReadCloser.Close up to its send on quit: the buffer is replaced and rl is
\* unlocked if the framer is synchronized, both without holding rl; a send on
\* the closed quit channel panics
Close ==
    /\ alive
    /\ cPc \in {"buffer", "state", "closed"}
    /\ CASE cPc = "buffer" ->
              /\ rxBuffer' = <<>>
              /\ avail' = FALSE
              /\ cPc' = "state"
              /\ UNCHANGED <<rl, cCall>>
         [] cPc = "state" ->
              /\ rl' = IF state = "synchronized" THEN "free" ELSE rl
              /\ cPc' = IF state = "synchronized" /\ rl = "free" THEN "fatal"
                        ELSE IF quitOpen THEN "quit"
                        ELSE "panic"
              /\ UNCHANGED <<rxBuffer, avail, cCall>>
         [] cPc = "closed" ->
              \* dl.Close has returned: App.Close calls app.dlbus.Close, the
              \* same ReadCloser; after it come gpio.Close and chip.Close
              /\ cPc' = IF cCall = 1 THEN "buffer" ELSE "gpio"
              /\ cCall' = IF cCall = 1 THEN 2 ELSE cCall
              /\ UNCHANGED <<rxBuffer, avail, rl>>
    /\ UNCHANGED <<syncCounter, state, rxBit, rxRegister, readerVars,
                   lastFrame, curFrame, highRun, awaitRun, blockedBits,
                   dropped, replaced, feedVars, appVars, decVars,
                   lineVars, lineC, lineOpen, lastEvent, debounce, dPc, dOut, fPc,
                   quitOpen, sent>>

\* r.quit <- true in Close and <-r.quit in run
CloseQuit ==
    /\ alive
    /\ cPc = "quit"
    /\ fPc = "select"
    /\ cPc' = "wait"
    /\ fPc' = "done"
    /\ UNCHANGED <<framerVars, readerVars, ghostVars, feedVars, appVars, decVars,
                   lineVars, lineC, lineOpen, lastEvent, debounce, dPc, dOut,
                   cCall, quitOpen, sent>>

\* r.done <- true in run, which returns, and <-r.done in Close, which closes
\* quit and done and returns
CloseDone ==
    /\ alive
    /\ cPc = "wait"
    /\ fPc = "done"
    /\ cPc' = "closed"
    /\ fPc' = "returned"
    /\ quitOpen' = FALSE
    /\ UNCHANGED <<framerVars, readerVars, ghostVars, feedVars, appVars, decVars,
                   lineVars, lineC, lineOpen, lastEvent, debounce, dPc, dOut,
                   cCall, sent>>

\* a step of Read, called by App.service through UVR42Handler.Get, while the
\* pipeline runs and App.Close may be under way; if the deferred
\* r.rl.Unlock() of Read finds rl unlocked (Close or the framer has unlocked
\* it meanwhile), that is a fatal error of the runtime
ServiceRead ==
    /\ alive
    /\ IF rdPc = "unlock" /\ rl = "free"
       THEN /\ rdPc' = "fatal"
            /\ UNCHANGED <<framerVars, rdN, rdErr, rdOut, ghostVars, feedVars,
                           manVars, appVars>>
       ELSE Read

\* the state after NewLine, manchester.New and NewReader
InitPipe ==
    /\ lineC = <<>>
    /\ lineOpen = TRUE
    /\ lastEvent = 0
    /\ debounce = 0
    /\ dPc = "select"
    /\ dOut = <<>>
    /\ fPc = "select"
    /\ cPc = "idle"
    /\ cCall = 0
    /\ quitOpen = TRUE
    /\ sent = <<>>

\* bounds of the edge source: the events of a line, the ticks between two
\* of them, and the debounce period of a line that has one
MaxEv == 3
MaxGap == 3
DebouncePeriod == 2

\* the sequences of n events from time t on, any edge after 1..MaxGap ticks
RECURSIVE EdgeSeqs(_, _)
EdgeSeqs(n, t) ==
    IF n = 0 THEN {<<>>}
    ELSE UNION {{<<[Timestamp |-> t + g, Type |-> ty]>> \o rest :
                    ty \in {RisingEdge, FallingEdge},
                    rest \in EdgeSeqs(n - 1, t + g)} : g \in 1..MaxGap}

\* the time without an edge after which the signal counts as lost
StallWindow == 400

\* the events evs with every event after the first pos of them late by d
Delayed(evs, pos, d) ==
    [i \in 1..Len(evs) |->
        IF i <= pos THEN evs[i]
        ELSE [Timestamp |-> evs[i].Timestamp + d, Type |-> evs[i].Type]]

\* the line falling silent once for longer than the stall window
InitStallLine ==
    \E payload \in [1..PayloadLen -> {High, Low}] :
        LET evs == EdgesFrom(LineBits(payload), 1)
        IN  /\ \E pos \in 1..(Len(evs) - 1) :
                  events = Delayed(evs, pos, StallWindow + 1)
            /\ evIdx = 1
            /\ expected = ExpectedBits(payload)
            /\ spurious = 0

\* the line carrying a sync sequence and the start of a frame
InitPipeLine ==
    \E payload \in [1..PayloadLen -> {High, Low}] :
        /\ events = EdgesFrom(LineBits(payload), 1)
        /\ evIdx = 1
        /\ expected = ExpectedBits(payload)
        /\ spurious = 0

----------------------------------------------------------------------------
(* datalogger.UVR42Handler (the parser) and App (snapshot and gate).       *)
(* Temperatures are held in tenths of a degree: float64(int16)/10 is kept  *)
(* as the int16 value, and a limit of x degrees is 10*x tenths.            *)

\* device id of the uvr42
uvr42 == 16
\* temperature range
tMax == 300
tMin == -50
\* max temperature difference to the last measurement
maxDelta == 50
\* bitmask of Out1 and Out2
out1 == 32
out2 == 64

\* the wall clock stops here
MaxNow == 3
\* config.MQTT.Interval, in ticks of the wall clock
Interval == 2
\* config.MQTT.DeltaKelvin (0.5), in tenths of a degree
DeltaKelvin == 5
\* one bit period of the bus, in ticks of the wall clock
BitPeriod == 2

\* time.Duration saturates far above every interval
maxDuration == MaxNow + Interval + 1

\* datalogger.UVR42Frame{}
ZeroFrame ==
    [TimeStamp |-> 0, Temperature1 |-> 0, Temperature2 |-> 0, Temperature3 |-> 0,
     Temperature4 |-> 0, Out1 |-> FALSE, Out2 |-> FALSE, RotationSpeed |-> 0]

\* time.Time.IsZero and time.Time.Sub on the ticks of the wall clock
IsZero(t) == t = 0
\* Sub without the limits of time.Duration
Sub_mutPlain(t, u) == t - u
Sub(t, u) == IF IsZero(u) THEN maxDuration ELSE t - u

\* binary.LittleEndian.Uint16(b[i:i+2]) on a slice indexed from 0, and int16()
Uint16(b, i) == b[i + 1] + 256 * b[i + 2]
int16(u) == IF u >= 32768 THEN u - 65536 ELSE u

\* b[9]&mask > 0 for a mask of one bit
And(x, mask) == IF (x \div mask) % 2 = 1 THEN mask ELSE 0

\* h.Read(b) with b := make([]byte, 64): what the ReadCloser hands over
ReadInto(rd) ==
    [n |-> Min(Len(rd.raw), ReadBufSize),
     err |-> rd.err,
     b |-> [i \in 1..ReadBufSize |-> IF i <= Len(rd.raw) THEN rd.raw[i] ELSE 0]]

\* the frame Get decodes from the buffer at time t
decode(b, t) ==
    [TimeStamp |-> t,
     Temperature1 |-> int16(Uint16(b, 1)),
     Temperature2 |-> int16(Uint16(b, 3)),
     Temperature3 |-> int16(Uint16(b, 5)),
     Temperature4 |-> int16(Uint16(b, 7)),
     Out1 |-> And(b[10], out1) > 0,
     Out2 |-> And(b[10], out2) > 0,
     RotationSpeed |-> 0]

\* the difference to the last measured values exceeds maxDelta
deltaExceeded(f, last) ==
    /\ ~IsZero(last.TimeStamp)
    /\ \/ Abs(f.Temperature1 - last.Temperature1) > 10 * maxDelta
       \/ Abs(f.Temperature2 - last.Temperature2) > 10 * maxDelta
       \/ Abs(f.Temperature3 - last.Temperature3) > 10 * maxDelta
       \/ Abs(f.Temperature4 - last.Temperature4) > 10 * maxDelta

\* a temperature is outside tMin..tMax
outOfRange(f) ==
    \/ f.Temperature1 > 10 * tMax \/ f.Temperature2 > 10 * tMax
    \/ f.Temperature3 > 10 * tMax \/ f.Temperature4 > 10 * tMax
    \/ f.Temperature1 < 10 * tMin \/ f.Temperature2 < 10 * tMin
    \/ f.Temperature3 < 10 * tMin \/ f.Temperature4 < 10 * tMin

\* Get looking at the device id before the size
Get_mutDeviceFirst(h, rd, t) ==
    LET r == ReadInto(rd)
        f == decode(r.b, t)
    IN  IF r.err # "nil" THEN [err |-> r.err, f |-> ZeroFrame, h |-> h]
        ELSE IF r.b[1] # uvr42
            THEN [err |-> "ErrUnsupportedDevice", f |-> ZeroFrame, h |-> h]
        ELSE IF r.n # 10 THEN [err |-> "ErrInvalidSize", f |-> ZeroFrame, h |-> h]
        ELSE IF deltaExceeded(f, h.lastValue)
            THEN [err |-> "ErrInvalidTemperature", f |-> f, h |-> h]
        ELSE IF outOfRange(f)
            THEN [err |-> "ErrInvalidTemperature", f |-> f, h |-> h]
        ELSE [err |-> "nil", f |-> f, h |-> h]

\* Get keeping the frame it accepts as the last measured values
Get_mutKeepLast(h, rd, t) ==
    LET r == ReadInto(rd)
        f == decode(r.b, t)
    IN  IF r.err # "nil" THEN [err |-> r.err, f |-> ZeroFrame, h |-> h]
        ELSE IF r.n # 10 THEN [err |-> "ErrInvalidSize", f |-> ZeroFrame, h |-> h]
        ELSE IF r.b[1] # uvr42
            THEN [err |-> "ErrUnsupportedDevice", f |-> ZeroFrame, h |-> h]
        ELSE IF deltaExceeded(f, h.lastValue)
            THEN [err |-> "ErrInvalidTemperature", f |-> f, h |-> h]
        ELSE IF outOfRange(f)
            THEN [err |-> "ErrInvalidTemperature", f |-> f, h |-> h]
        ELSE [err |-> "nil", f |-> f, h |-> [h EXCEPT !.lastValue = f]]

\* UVR42Handler.Get at wall time t, the ReadCloser handing over rd; h.lastValue
\* is read and never written
Get(h, rd, t) ==
    LET r == ReadInto(rd)
        f == decode(r.b, t)
    IN  IF r.err # "nil" THEN [err |-> r.err, f |-> ZeroFrame, h |-> h]
        ELSE IF r.n # 10 THEN [err |-> "ErrInvalidSize", f |-> ZeroFrame, h |-> h]
        ELSE IF r.b[1] # uvr42
            THEN [err |-> "ErrUnsupportedDevice", f |-> ZeroFrame, h |-> h]
        ELSE IF deltaExceeded(f, h.lastValue)
            THEN [err |-> "ErrInvalidTemperature", f |-> f, h |-> h]
        ELSE IF outOfRange(f)
            THEN [err |-> "ErrInvalidTemperature", f |-> f, h |-> h]
        ELSE [err |-> "nil", f |-> f, h |-> h]

Max(a, b) == IF a > b THEN a ELSE b

\* validateMeasurements asking for more than DeltaKelvin
validateMeasurements_mutStrict(a, f) ==
    LET m == a.mqttData
        deltaT == Sub(f.TimeStamp, m.TimeStamp)
        deltaK == Max(Max(Abs(f.Temperature1 - m.Temperature1),
                          Abs(f.Temperature2 - m.Temperature2)),
                      Max(Abs(f.Temperature3 - m.Temperature3),
                          Abs(f.Temperature4 - m.Temperature4)))
        deltaOut == f.Out1 # m.Out1 \/ f.Out2 # m.Out2
    IN  IF deltaT >= a.config.Interval \/ deltaK > a.config.DeltaKelvin \/ deltaOut
        THEN [a EXCEPT !.mqttData = f, !.sendq = a.sendq \cup {f}]
        ELSE a

\* validateMeasurements keeping as its reference a copy of the frame with a
\* timestamp of its own, a tick later
validateMeasurements_mutOwnStamp(a, f) ==
    LET m == a.mqttData
        deltaT == Sub(f.TimeStamp, m.TimeStamp)
        deltaK == Max(Max(Abs(f.Temperature1 - m.Temperature1),
                          Abs(f.Temperature2 - m.Temperature2)),
                      Max(Abs(f.Temperature3 - m.Temperature3),
                          Abs(f.Temperature4 - m.Temperature4)))
        deltaOut == f.Out1 # m.Out1 \/ f.Out2 # m.Out2
    IN  IF deltaT >= a.config.Interval \/ deltaK >= a.config.DeltaKelvin \/ deltaOut
        THEN [a EXCEPT !.mqttData = [f EXCEPT !.TimeStamp = f.TimeStamp + 1],
                       !.sendq = a.sendq \cup {f}]
        ELSE a

\* config.NewConfig: MQTT.Interval and MQTT.DeltaKelvin
NewConfig == [Interval |-> Interval, DeltaKelvin |-> DeltaKelvin]

\* App.validateMeasurements with sendMQTT: a is the last sent frame, the
\* goroutines sendMQTT has started and the configuration
validateMeasurements(a, f) ==
    LET m == a.mqttData
        deltaT == Sub(f.TimeStamp, m.TimeStamp)
        deltaK == Max(Max(Abs(f.Temperature1 - m.Temperature1),
                          Abs(f.Temperature2 - m.Temperature2)),
                      Max(Abs(f.Temperature3 - m.Temperature3),
                          Abs(f.Temperature4 - m.Temperature4)))
        deltaOut == f.Out1 # m.Out1 \/ f.Out2 # m.Out2
    IN  IF deltaT >= a.config.Interval \/ deltaK >= a.config.DeltaKelvin \/ deltaOut
        THEN [a EXCEPT !.mqttData = f, !.sendq = a.sendq \cup {f}]
        ELSE a

\* the two bytes of a temperature, low byte first: 30.0, 90.0, 300.0, 300.1,
\* -50.0, -50.1
TempBytes == {<<44, 1>>, <<132, 3>>, <<184, 11>>, <<185, 11>>, <<12, 254>>, <<11, 254>>}
\* the byte of the outputs
OutBytes == {0, 32, 64}
Warm == <<44, 1>>
Hot == <<185, 11>>

\* what the ReadCloser may hand over: frames of the uvr42, frames of another
\* length, frames of another device, nothing
RawFrames ==
    {<<uvr42>> \o t \o Warm \o Warm \o Warm \o <<0>> : t \in TempBytes}
    \cup {<<uvr42>> \o Warm \o Warm \o Warm \o Warm \o <<o>> : o \in OutBytes}
    \cup {<<uvr42>> \o Warm \o Hot \o Warm \o Warm \o <<0>>,
          <<uvr42>> \o Warm \o Warm \o Hot \o Warm \o <<0>>,
          <<uvr42>> \o Warm \o Warm \o Warm \o Hot \o <<0>>,
          <<48>> \o Warm \o Warm \o Warm \o Warm \o <<0>>,
          <<uvr42>> \o Warm, <<48>> \o Warm,
          <<uvr42>> \o Warm \o Warm \o Warm \o Warm \o <<0, 0>>,
          <<>>}

ReadOutcomes ==
    {[raw |-> <<>>, err |-> "EOF"]} \cup {[raw |-> r, err |-> "nil"] : r \in RawFrames}

\* the two bytes of the temperatures 0.0, 30.4 and 30.5
Zero == <<0, 0>>
Warmer == <<48, 1>>
Warmest == <<49, 1>>

\* frames that differ from each other by less than, by exactly and by more
\* than 0.5 degrees or in an output, a frame of zeros
GateFrames ==
    {<<uvr42>> \o Warm \o Warm \o Warm \o Warm \o <<0>>,
     <<uvr42>> \o Warmer \o Warm \o Warm \o Warm \o <<0>>,
     <<uvr42>> \o Warm \o Warm \o Warm \o Warmest \o <<0>>,
     <<uvr42>> \o Warm \o Warm \o Warm \o Warm \o <<64>>,
     <<uvr42>> \o Zero \o Zero \o Zero \o Zero \o <<0>>}

GateOutcomes ==
    {[raw |-> <<>>, err |-> "EOF"]} \cup {[raw |-> r, err |-> "nil"] : r \in GateFrames}

\* what the ReadCloser hands over in a run of the given kind
Readable(kind) == IF kind = "gate" THEN GateOutcomes ELSE ReadOutcomes

\* the loop of App.service sending on mqtt.C itself: a pass ends when Service
\* has taken the message of the pass before
service_mutBlocking ==
    /\ now <= MaxNow
    /\ sendq = {}
    /\ \E rd \in Readable(readable), dt \in {1, Interval} :
          LET g == Get([lastValue |-> lastValue], rd, now)
              v == validateMeasurements([mqttData |-> mqttData, sendq |-> sendq,
                                         config |-> config], g.f)
          IN  /\ lastValue' = g.h.lastValue
              /\ now' = now + dt
              /\ got' = [rd |-> rd, err |-> g.err, f |-> g.f, before |-> DataFrame]
              /\ IF g.err # "nil"
                 THEN UNCHANGED <<DataFrame, mqttData, sendq, reads, lastOk>>
                 ELSE /\ DataFrame' = g.f
                      /\ mqttData' = v.mqttData
                      /\ sendq' = v.sendq
                      /\ reads' = 0
                      /\ lastOk' = g.f
    /\ UNCHANGED <<pubq, broker, config, readable, snap>>
    /\ UNCHANGED <<framerVars, readerVars, ghostVars, feedVars, manVars>>

\* the loop of App.service storing the frame of Get whatever its error (but
\* io.EOF)
service_mutStoreRejected ==
    /\ now <= MaxNow
    /\ \E rd \in Readable(readable), dt \in {1, Interval} :
          LET g == Get([lastValue |-> lastValue], rd, now)
              v == validateMeasurements([mqttData |-> mqttData, sendq |-> sendq,
                                         config |-> config], g.f)
          IN  /\ lastValue' = g.h.lastValue
              /\ now' = now + dt
              /\ got' = [rd |-> rd, err |-> g.err, f |-> g.f, before |-> DataFrame]
              /\ IF g.err = "EOF"
                 THEN UNCHANGED <<DataFrame, mqttData, sendq, reads, lastOk>>
                 ELSE /\ DataFrame' = g.f
                      /\ mqttData' = v.mqttData
                      /\ sendq' = v.sendq
                      /\ reads' = IF g.err = "nil" THEN 0 ELSE reads
                      /\ lastOk' = IF g.err = "nil" THEN g.f ELSE lastOk
    /\ UNCHANGED <<pubq, broker, config, readable, snap>>
    /\ UNCHANGED <<framerVars, readerVars, ghostVars, feedVars, manVars>>

\* one pass of the loop of App.service; the wall clock advances
service ==
    /\ now <= MaxNow
    /\ \E rd \in Readable(readable), dt \in {1, Interval} :
          LET g == Get([lastValue |-> lastValue], rd, now)
              v == validateMeasurements([mqttData |-> mqttData, sendq |-> sendq,
                                         config |-> config], g.f)
          IN  /\ lastValue' = g.h.lastValue
              /\ now' = now + dt
              /\ got' = [rd |-> rd, err |-> g.err, f |-> g.f, before |-> DataFrame]
              /\ IF g.err # "nil"
                 THEN UNCHANGED <<DataFrame, mqttData, sendq, reads, lastOk>>
                 ELSE /\ DataFrame' = g.f
                      /\ mqttData' = v.mqttData
                      /\ sendq' = v.sendq
                      /\ reads' = 0
                      /\ lastOk' = g.f
    /\ UNCHANGED <<pubq, broker, config, readable, snap>>
    /\ UNCHANGED <<framerVars, readerVars, ghostVars, feedVars, manVars>>

\* a goroutine of sendMQTT hands its message to mqtt.Handler.Service, which
\* starts a goroutine to publish it
Service ==
    /\ \E f \in sendq :
          /\ sendq' = sendq \ {f}
          /\ pubq' = pubq \cup {f}
    /\ UNCHANGED <<lastValue, DataFrame, mqttData, now, broker, got, config,
                   readable, webVars>>
    /\ UNCHANGED <<framerVars, readerVars, ghostVars, feedVars, manVars>>

\* a goroutine of Service publishes its message, or gives up when the broker
\* is not connected and cannot be reconnected
Publish ==
    /\ \E f \in pubq :
          /\ pubq' = pubq \ {f}
          /\ \/ broker' = Append(broker, f)
             \/ broker' = broker
    /\ UNCHANGED <<lastValue, DataFrame, mqttData, now, sendq, got, config,
                   readable, webVars>>
    /\ UNCHANGED <<framerVars, readerVars, ghostVars, feedVars, manVars>>

\* ctx.JSON(app.DataFrame.data): the values of the fields in the order of the
\* struct
JSON(f) ==
    <<f.TimeStamp, f.Temperature1, f.Temperature2, f.Temperature3, f.Temperature4,
      f.Out1, f.Out2, f.RotationSpeed>>

\* HandleData taking the frame away as ReadCloser.Read does
HandleData_mutConsume ==
    /\ snap' = JSON(DataFrame)
    /\ DataFrame' = ZeroFrame
    /\ reads' = Min(reads + 1, 2)
    /\ UNCHANGED <<lastValue, mqttData, now, sendq, pubq, broker, got,
                   config, readable, lastOk>>
    /\ UNCHANGED <<framerVars, readerVars, ghostVars, feedVars, manVars>>

\* the handler of the route /data answers a request
HandleData ==
    /\ snap' = JSON(DataFrame)
    /\ reads' = Min(reads + 1, 2)
    /\ UNCHANGED <<lastValue, DataFrame, mqttData, now, sendq, pubq, broker, got,
                   config, readable, lastOk>>
    /\ UNCHANGED <<framerVars, readerVars, ghostVars, feedVars, manVars>>

InitAppData ==
    /\ lastValue = ZeroFrame
    /\ DataFrame = ZeroFrame
    /\ mqttData = ZeroFrame
    /\ now = 1
    /\ sendq = {}
    /\ pubq = {}
    /\ broker = <<>>
    /\ got = [rd |-> [raw |-> <<>>, err |-> "EOF"], err |-> "EOF", f |-> ZeroFrame,
              before |-> ZeroFrame]
    /\ snap = <<>>
    /\ reads = 0
    /\ lastOk = ZeroFrame

InitApp ==
    /\ InitAppData
    /\ config = NewConfig
    /\ readable = "any"

----------------------------------------------------------------------------
(* Specifications.                                                         *)

Init ==
    /\ InitFramer
    /\ B = <<>>
    /\ feedIdx = 0
    /\ InitDecoder
    /\ InitPipe
    /\ InitNoLine
    /\ InitApp

Next == Receive \/ Read

\* the framer goroutine and a reader, the bus delivering any symbol
Spec == Init /\ [][Next]_vars

InitBytes ==
    /\ InitFramer
    /\ B \in UNION {[1..n -> ByteVals] : n \in 1..MaxB}
    /\ feedIdx = 1
    /\ InitDecoder
    /\ InitPipe
    /\ InitNoLine
    /\ InitApp

NextBytes == Feed \/ FeedRead

\* the framer goroutine and a reader, the bus carrying the frame B twice
SpecBytes == InitBytes /\ [][NextBytes]_vars

InitClock ==
    /\ InitFramer
    /\ B = <<>>
    /\ feedIdx = 0
    /\ InitDecoder
    /\ InitPipe
    /\ InitNoLine
    /\ InitApp

NextClock == ClockEdge

\* the decoder discovering the clock from intervals with at most 5% jitter
SpecClock == InitClock /\ [][NextClock]_vars

InitDecode ==
    /\ InitFramer
    /\ B = <<>>
    /\ feedIdx = 0
    /\ InitDecoder
    /\ InitPipe
    /\ InitLine
    /\ InitApp

NextDecode == LineEdge

\* the decoder on a valid Manchester stream, with or without one extra edge
SpecDecode == InitDecode /\ [][NextDecode]_vars

InitService ==
    /\ InitFramer
    /\ B = <<>>
    /\ feedIdx = 0
    /\ InitDecoder
    /\ InitPipe
    /\ InitNoLine
    /\ InitApp

NextService == service \/ Service \/ Publish

\* the loop of App.service, the ReadCloser handing over any frame
SpecService == InitService /\ [][NextService]_vars

InitGet ==
    /\ InitFramer
    /\ B = <<>>
    /\ feedIdx = 0
    /\ InitDecoder
    /\ InitPipe
    /\ InitNoLine
    /\ InitApp

NextGet == service

\* the loop of App.service alone, the ReadCloser handing over any frame; the
\* goroutines that sendMQTT starts are followed in SpecService and SpecMqtt
SpecGet == InitGet /\ [][NextGet]_vars

InitMqtt ==
    /\ InitFramer
    /\ B = <<>>
    /\ feedIdx = 0
    /\ InitDecoder
    /\ InitPipe
    /\ InitNoLine
    /\ InitAppData
    /\ config = NewConfig
    /\ readable = "gate"

NextMqtt == service \/ Service \/ Publish

\* the loop of App.service and the goroutines of sendMQTT and of
\* mqtt.Handler.Service, the ReadCloser handing over frames that are equal,
\* close to or far from each other
SpecMqtt == InitMqtt /\ [][NextMqtt]_vars

\* the configurations of mqtt: interval 0, some seconds or the longest
\* time.Duration, deltakelvin 0 or 0.5
Configs ==
    [Interval : {0, Interval, maxDuration}, DeltaKelvin : {0, DeltaKelvin}]

InitGate ==
    /\ InitFramer
    /\ B = <<>>
    /\ feedIdx = 0
    /\ InitDecoder
    /\ InitPipe
    /\ InitNoLine
    /\ InitAppData
    /\ config \in Configs
    /\ readable = "gate"

NextGate == service

\* the loop of App.service under every configuration of mqtt, the ReadCloser
\* handing over frames that are equal, close to or far from each other; the
\* goroutines that sendMQTT starts are followed in SpecService
SpecGate == InitGate /\ [][NextGate]_vars

InitSnapshot ==
    /\ InitFramer
    /\ B = <<>>
    /\ feedIdx = 0
    /\ InitDecoder
    /\ InitPipe
    /\ InitNoLine
    /\ InitApp

NextSnapshot == service \/ HandleData

\* the loop of App.service and requests for /data; the goroutines that
\* sendMQTT starts are followed in SpecService
SpecSnapshot == InitSnapshot /\ [][NextSnapshot]_vars

InitClose ==
    /\ InitFramer
    /\ B = <<>>
    /\ feedIdx = 0
    /\ InitDecoder
    /\ InitPipe
    /\ InitPipeLine
    /\ InitApp

NextClose ==
    EdgeHandler \/ DecoderRun \/ FramerRecv \/ CloseCall \/ Close \/ CloseQuit
        \/ CloseDone

\* the pipeline from the line to the framer, and App.Close called at any time
SpecClose == InitClose /\ [][NextClose]_vars

InitEdges ==
    /\ InitFramer
    /\ B = <<>>
    /\ feedIdx = 0
    /\ InitDecoder
    /\ InitPipe
    /\ InitNoLine
    /\ InitApp

NextEdges == AnyEdge

\* the decoder taking edges of any polarity at any distance from each other
SpecEdges == InitEdges /\ [][NextEdges]_vars

InitCalc ==
    /\ InitFramer
    /\ B = <<>>
    /\ feedIdx = 0
    /\ InitDecoder
    /\ InitPipe
    /\ InitNoLine
    /\ InitApp

NextCalc == CalcEdge

\* calcBitPeriods on samples of any spread in any order
SpecCalc == InitCalc /\ [][NextCalc]_vars

InitShutdown ==
    /\ InitFramer
    /\ B = <<>>
    /\ feedIdx = 0
    /\ InitDecoder
    /\ InitPipe
    /\ InitPipeLine
    /\ InitApp

NextShutdown ==
    EdgeHandler \/ DecoderRun \/ FramerRecv \/ ServiceRead \/ CloseCall \/ Close
        \/ CloseQuit \/ CloseDone

\* the pipeline from the line to the framer, App.service reading frames, and
\* App.Close called at any time
SpecShutdown == InitShutdown /\ [][NextShutdown]_vars

InitCancel ==
    /\ InitFramer
    /\ B = <<>>
    /\ feedIdx = 0
    /\ InitDecoder
    /\ InitPipe
    /\ InitPipeLine
    /\ InitApp

NextCancel == EdgeHandler \/ LineClose \/ DecoderRun \/ FramerRecv

\* the pipeline from the line to the framer, and Line.Close called at any
\* time; a goroutine that can run is scheduled
SpecCancel ==
    InitCancel /\ [][NextCancel]_vars /\ WF_vars(DecoderRun) /\ WF_vars(FramerRecv)

InitEdge ==
    /\ InitFramer
    /\ B = <<>>
    /\ feedIdx = 0
    /\ InitDecoder
    /\ lineC = <<>>
    /\ lineOpen = TRUE
    /\ lastEvent = 0
    /\ debounce \in {0, DebouncePeriod}
    /\ dPc = "select"
    /\ dOut = <<>>
    /\ fPc = "select"
    /\ cPc = "idle"
    /\ cCall = 0
    /\ quitOpen = TRUE
    /\ sent = <<>>
    /\ \E g \in 0..MaxGap : events \in EdgeSeqs(MaxEv, HalfT + g)
    /\ evIdx = 1
    /\ expected = <<>>
    /\ spurious = 0
    /\ InitApp

NextEdge == EdgeHandler \/ DecoderRun

\* the event handler of a line with and without a debounce period, events
\* arriving 1..MaxGap ticks apart, and Decoder.run taking them from Line.C
SpecEdge == InitEdge /\ [][NextEdge]_vars

InitStall ==
    /\ InitFramer
    /\ B = <<>>
    /\ feedIdx = 0
    /\ InitDecoder
    /\ InitPipe
    /\ InitStallLine
    /\ InitApp

NextStall == LineEdge

\* the decoder on a line that falls silent once for longer than the stall
\* window
SpecStall == InitStall /\ [][NextStall]_vars

----------------------------------------------------------------------------
(* Claims about the framer and its reader.                                 *)

\* C1 (as stated): while synchronizing, a Low symbol moves the framer to
\* synchronized if and only if at least 16 consecutive High symbols
\* immediately preceded it on the channel.
C1_LowSyncsIffSixteenHighs ==
    [][ (state = "synchronizing" /\ FramerStep(Low))
            => ((state' = "synchronized") <=> (highRun >= SyncBits)) ]_vars

\* C1 (amended): while synchronizing, a Low symbol moves the framer to
\* synchronized if and only if at least 16 consecutive High symbols were
\* counted since the framer last returned to synchronizing, the High that
\* completed the previous frame counting as the first; High symbols consumed
\* as data or stop bits of the previous frame do not count.  On the
\* transition the buffer is emptied, rl is held by the framer and the Low is
\* the start bit of the first byte (rxBit 1, rxRegister 0), and at least 16
\* consecutive High symbols preceded it on the channel.
C1_LowSyncsIffSixteenCounted ==
    [][ (state = "synchronizing" /\ FramerStep(Low))
            => /\ (state' = "synchronized") <=> (awaitRun >= SyncBits)
               /\ (state' = "synchronized") =>
                     /\ highRun >= SyncBits
                     /\ rxBuffer' = <<>>
                     /\ rl' = "framer"
                     /\ rxBit' = 1
                     /\ rxRegister' = 0 ]_vars

\* C1 witness: the framer has just taken the Low after a sync sequence as the
\* start bit of a frame while a completed frame was still unread in the buffer.
C1_Witness ==
    /\ state = "synchronized"
    /\ rxBit = 1
    /\ rxBuffer = <<>>
    /\ rl = "framer"
    /\ highRun = 0
    /\ dropped

\* C2: for every byte sequence B sent as sync sequence, framed bytes (start
\* bit, 8 data bits LSB first, stop bit) and a following sync sequence, the
\* frame completed by the framer and every frame Read returns is exactly B,
\* and no frame is completed before B has been sent.
C2_FrameReadIsB ==
    /\ (rdPc = "unlock" /\ rdErr = "nil") => (rdOut = B /\ rdN = Len(B))
    /\ (state = "synchronizing" /\ rdPc # "clear") =>
            rxBuffer = (IF avail THEN B ELSE <<>>)
    /\ (feedIdx > FirstEnd(B)) => lastFrame = B
    /\ (feedIdx <= FirstEnd(B)) => (lastFrame = <<>> /\ ~avail)

\* C2 witness: Read returns a frame of at least two different bytes.
C2_Witness ==
    /\ rdPc = "unlock"
    /\ rdErr = "nil"
    /\ rdOut = B
    /\ Len(B) >= 2
    /\ B[1] # B[2]

\* C3: Read returns either (0, io.EOF) or the complete bytes of the most
\* recently completed frame, in every interleaving with the framer.
C3_ReadWholeFrameOrEOF ==
    rdPc = "unlock" =>
        \/ rdN = 0 /\ rdErr = "EOF"
        \/ /\ rdErr = "nil"
           /\ rdN > 0
           /\ rdN = Len(lastFrame)
           /\ rdOut = lastFrame

\* C4 (as stated): while a reader is blocked in Read the framer processes at
\* most one symbol.
C4_BlockedAtMostOneBit == blockedBits <= 1

\* C4 (amended): a reader is blocked in Read only while the framer is
\* receiving a frame, and for no more symbols than that frame has had since
\* its start bit (10 per byte): it waits for the end of the frame, not for one
\* bit period.
C4_BlockedOnlyWhileReceiving ==
    (rdPc = "lock" /\ rl # "free") =>
        /\ state = "synchronized"
        /\ rl = "framer"
        /\ blockedBits <= 10 * Len(rxBuffer) + rxBit - 1

\* C4 witness: a reader has been blocked while the framer took ten symbols.
C4_Witness == rdPc = "lock" /\ rl = "framer" /\ blockedBits >= 10

\* C5: the framer holds at most one completed frame, the most recently
\* completed one: while synchronizing the buffer is that frame, or empty once
\* it was read or discarded, and Read returns only that frame.
C5_SlotHoldsLatestFrame ==
    /\ (state = "synchronizing" /\ rdPc # "clear") =>
            rxBuffer = (IF avail THEN lastFrame ELSE <<>>)
    /\ avail => lastFrame # <<>>
    /\ (rdPc \in {"clear", "unlock"} /\ rdN > 0) => rdOut = lastFrame

\* C5 witness: Read returns the latest frame after an older, different frame
\* was completed and never read.
C5_Witness ==
    /\ rdPc = "unlock"
    /\ rdN > 0
    /\ rdOut = lastFrame
    /\ replaced

----------------------------------------------------------------------------
(* Claims about the Manchester decoder.                                    *)

IsPrefix(p, q) == Len(p) <= Len(q) /\ SubSeq(q, 1, Len(p)) = p
IsSuffix(p, q) == Len(p) <= Len(q) /\ SubSeq(q, Len(q) - Len(p) + 1, Len(q)) = p

\* the undisturbed stream is decoded to the bits it encodes
UndisturbedDecoded ==
    (spurious = 0 /\ evIdx > Len(events)) => emitted = expected

\* C6: after one extra edge in a valid stream decoded in synchronized, the
\* decoder has sent exactly one Invalid, the bits before it are bits of the
\* undisturbed stream and the bits after it are the rest of the undisturbed
\* stream, complete from the end of the sync sequence on.
C6_SpuriousEdgeOneInvalid ==
    (spurious # 0 /\ evIdx > Len(events)) =>
        LET inv == {i \in DOMAIN emitted : emitted[i] = Invalid}
        IN  /\ Cardinality(inv) = 1
            /\ \A i \in inv :
                  /\ IsPrefix(SubSeq(emitted, 1, i - 1), expected)
                  /\ IsSuffix(SubSeq(emitted, i + 1, Len(emitted)), expected)
                  /\ Len(emitted) - i >= Len(Trailer)

NumHalf(samples) == Cardinality({i \in DOMAIN samples : samples[i] \in HalfPeriods})

\* C7 (as stated): whatever intervals within 5% of T or 2T were collected, the
\* half-bit period found lies within 10% of T.
C7_ClockWithinTenPercent ==
    (mState # "discoverClock") => 10 * Abs(SignalT - HalfT) <= HalfT

\* C7 (amended): if at least two of the collected intervals are half-bit
\* intervals, the half-bit period found lies within 10% of T.
C7_ClockWithinTenPercentOfHalfBits ==
    (mState # "discoverClock" /\ NumHalf(collected) >= 2) =>
        10 * Abs(SignalT - HalfT) <= HalfT

\* C7 witness: the clock was found from exactly two half-bit intervals among
\* full-bit intervals, with jitter.
C7_Witness ==
    /\ mState = "synchronizing"
    /\ NumHalf(collected) = 2
    /\ SignalT # HalfT
    /\ 10 * Abs(SignalT - HalfT) <= HalfT

----------------------------------------------------------------------------
(* Claims about the parser.                                                *)

\* what lies behind the parser: the snapshot, the gate and the messages
downstream == <<DataFrame, mqttData, sendq, pubq, broker>>

\* the signed 16-bit little-endian value of bytes 2i-1 and 2i of a raw frame
\* whose first byte is byte 0: the temperature i in tenths of a degree
RawTemp(raw, i) ==
    LET u == raw[2 * i] + 256 * raw[2 * i + 1]
    IN  IF u >= 32768 THEN u - 65536 ELSE u

TempOf(f, i) ==
    CASE i = 1 -> f.Temperature1
      [] i = 2 -> f.Temperature2
      [] i = 3 -> f.Temperature3
      [] i = 4 -> f.Temperature4

\* C8: a pass of the service loop in which Read hands over a raw frame whose
\* length is not 10 ends with ErrInvalidSize, whatever its first byte; a raw
\* frame of 10 bytes whose first byte is not 0x10 ends with
\* ErrUnsupportedDevice; in both cases the snapshot, the gate and the messages
\* stay as they were.
C8_RejectionOrder ==
    [][ (now' # now /\ got'.rd.err = "nil") =>
            /\ Len(got'.rd.raw) # 10 =>
                  (got'.err = "ErrInvalidSize" /\ UNCHANGED downstream)
            /\ (Len(got'.rd.raw) = 10 /\ got'.rd.raw[1] # 16) =>
                  (got'.err = "ErrUnsupportedDevice" /\ UNCHANGED downstream) ]_vars

\* C8 witness: a frame of 3 bytes of another device was rejected for its size
\* after a frame had reached the snapshot.
C8_Witness ==
    /\ got.rd.err = "nil"
    /\ Len(got.rd.raw) = 3
    /\ got.rd.raw[1] = 48
    /\ got.err = "ErrInvalidSize"
    /\ ~IsZero(DataFrame.TimeStamp)
    /\ DataFrame = got.before

C10_DeltaRejected ==
    [][ (now' # now /\ got'.rd.err = "nil" /\ Len(got'.rd.raw) = 10
            /\ got'.rd.raw[1] = 16 /\ ~IsZero(got'.before.TimeStamp)
            /\ \E i \in 1..4 :
                  Abs(RawTemp(got'.rd.raw, i) - TempOf(got'.before, i)) > 500)
            => got'.err = "ErrInvalidTemperature" ]_vars

----------------------------------------------------------------------------
(* Claims about the gate, the messages and the snapshot.                   *)

\* the frames handed to sendMQTT so far, wherever their messages are
Range(q) == {q[i] : i \in DOMAIN q}
handed == sendq \cup pubq \cup Range(broker)

Rejections == {"ErrInvalidSize", "ErrUnsupportedDevice", "ErrInvalidTemperature"}

\* C11: a pass of the service loop in which Get returns ErrInvalidSize,
\* ErrUnsupportedDevice or ErrInvalidTemperature leaves the gate's reference
\* M (mqttData) and the snapshot (DataFrame) as they were and hands no message
\* to MQTT.
C11_RejectedFrameNoEffect ==
    [][ (now' # now /\ got'.err \in Rejections) =>
            (mqttData' = mqttData /\ DataFrame' = DataFrame /\ handed' = handed) ]_vars

\* C11 witness: a frame was rejected for a temperature after another frame had
\* been stored and published.
C11_Witness ==
    /\ got.err = "ErrInvalidTemperature"
    /\ ~IsZero(mqttData.TimeStamp)
    /\ DataFrame = got.before
    /\ got.f # DataFrame
    /\ Len(broker) = 1
    /\ sendq = {}
    /\ pubq = {}

\* F is to be published after M: the interval has passed since M (the initial
\* M lies further back than every interval), a temperature has changed by
\* delta_kelvin or more, or an output has changed
Due(F, M, c) ==
    \/ IsZero(M.TimeStamp)
    \/ F.TimeStamp - M.TimeStamp >= c.Interval
    \/ \E i \in 1..4 : Abs(TempOf(F, i) - TempOf(M, i)) >= c.DeltaKelvin
    \/ F.Out1 # M.Out1
    \/ F.Out2 # M.Out2

\* two frames differ in their timestamps at most
SameValues(f, g) == [f EXCEPT !.TimeStamp = 0] = [g EXCEPT !.TimeStamp = 0]

Unchanged(F, M, c) ==
    /\ \A i \in 1..4 : Abs(TempOf(F, i) - TempOf(M, i)) < c.DeltaKelvin
    /\ F.Out1 = M.Out1
    /\ F.Out2 = M.Out2

\* C13: with interval 0, a pass of the service loop in which Get succeeds with
\* a frame whose temperatures each differ from those of the last published
\* frame M by less than delta_kelvin and whose outputs are those of M hands
\* no message to MQTT and leaves M, whatever time has passed.
C13_IntervalZeroOnlyOnChange ==
    [][ (now' # now /\ got'.err = "nil" /\ config.Interval = 0
            /\ ~IsZero(mqttData.TimeStamp) /\ Unchanged(got'.f, mqttData, config))
            => (mqttData' = mqttData /\ handed' = handed) ]_vars

\* C14: with delta_kelvin 0, a pass of the service loop in which Get succeeds
\* with a frame whose outputs are those of the last published frame M, less
\* than the interval after M, hands no message to MQTT and leaves M.
C14_DeltaZeroOnlyHeartbeat ==
    [][ (now' # now /\ got'.err = "nil" /\ config.DeltaKelvin = 0
            /\ ~IsZero(mqttData.TimeStamp)
            /\ got'.f.Out1 = mqttData.Out1 /\ got'.f.Out2 = mqttData.Out2
            /\ got'.f.TimeStamp - mqttData.TimeStamp < config.Interval)
            => (mqttData' = mqttData /\ handed' = handed) ]_vars

\* C15: no two frames handed to MQTT differ in their timestamps only and by
\* less than the smaller of the interval and one bit period.
C15_NoRepublicationWithinBitPeriod ==
    \A f, g \in handed :
        (f # g /\ SameValues(f, g)) =>
            Abs(f.TimeStamp - g.TimeStamp) >= Min(config.Interval, BitPeriod)

\* C16: a pass of the service loop in which Get succeeds while no frame has
\* been published (M is the initial frame) hands the frame to MQTT and makes
\* it M, under every configuration and for every frame.
C16_FirstFramePublished ==
    [][ (now' # now /\ got'.err = "nil" /\ mqttData = ZeroFrame /\ handed = {})
            => (mqttData' = got'.f /\ handed' = {got'.f}) ]_vars

\* C16 witness: under the longest interval and delta 0.5 a first frame of
\* zeros, equal to the initial M but for its timestamp, was published.
C16_Witness ==
    /\ config.Interval = maxDuration
    /\ config.DeltaKelvin = DeltaKelvin
    /\ got.err = "nil"
    /\ SameValues(got.f, ZeroFrame)
    /\ mqttData = got.f
    /\ handed = {got.f}

\* C17: the messages reach the MQTT handler and its Publish calls are issued
\* in the order in which the gate accepted their frames (the order of their
\* timestamps): no message is with the handler or published while an older
\* one waits to be sent, none is published while an older one waits in the
\* handler, and the published ones are in order.
C17_PublishedInAcceptedOrder ==
    /\ \A f \in sendq, g \in pubq \cup Range(broker) : g.TimeStamp < f.TimeStamp
    /\ \A f \in pubq, g \in Range(broker) : g.TimeStamp < f.TimeStamp
    /\ \A i, j \in DOMAIN broker :
          i < j => broker[i].TimeStamp < broker[j].TimeStamp

\* C18: a pass of the service loop can be taken wherever the messages handed
\* to MQTT are, and M is at least as recent as every message, sent or not,
\* published or not.
C18_GateNeverWaitsForMqtt ==
    /\ now <= MaxNow => ENABLED service
    /\ \A f \in handed : f.TimeStamp <= mqttData.TimeStamp

\* C18 witness: the gate accepted a frame and made it M while the message of
\* an earlier frame had not been taken by the MQTT handler and nothing had
\* been published.
C18_Witness ==
    /\ got.err = "nil"
    /\ mqttData = got.f
    /\ got.f \in sendq
    /\ Cardinality(sendq) >= 2
    /\ pubq = {}
    /\ broker = <<>>

\* C19: every answer of HandleData is the frame of the most recent successful
\* Get, or the frame of zero values when no Get has succeeded.
C19_SnapshotIsLastSuccessfulGet ==
    [][ HandleData =>
            snap' = <<lastOk.TimeStamp, lastOk.Temperature1, lastOk.Temperature2,
                      lastOk.Temperature3, lastOk.Temperature4, lastOk.Out1,
                      lastOk.Out2, lastOk.RotationSpeed>> ]_vars

\* C19 witness: HandleData answered with the last accepted frame after Get had
\* rejected a later frame for its temperature.
C19_Witness ==
    /\ reads = 1
    /\ got.err = "ErrInvalidTemperature"
    /\ ~IsZero(lastOk.TimeStamp)
    /\ got.f.TimeStamp > lastOk.TimeStamp
    /\ snap = JSON(lastOk)

\* C20: an answer of HandleData that follows another with no successful Get
\* between them equals it, and no answer changes the snapshot.
C20_SnapshotReadIdempotent ==
    [][ HandleData =>
            /\ DataFrame' = DataFrame
            /\ reads >= 1 => snap' = snap ]_vars

\* C20 witness: HandleData answered twice with the same frame, Get having
\* failed in between.
C20_Witness ==
    /\ reads = 2
    /\ got.err \in Rejections \cup {"EOF"}
    /\ got.before = DataFrame
    /\ ~IsZero(DataFrame.TimeStamp)
    /\ snap = JSON(DataFrame)
    /\ now > DataFrame.TimeStamp + 1

----------------------------------------------------------------------------
(* Claims about shutdown, cancellation and the edge source.                *)

\* C21: on the shutdown signal App.Close runs to its end without a panic or
\* a fatal error, and when the framer has been closed its goroutine and,
\* upstream of it, the goroutine of the Manchester decoder have returned: no
\* task is left blocked.
C21_CleanShutdown ==
    /\ cPc \notin {"panic", "fatal"}
    /\ fPc # "fatal"
    /\ (cPc = "closed" /\ cCall = 1) => fPc = "returned"
    /\ cPc = "gpio" => (fPc = "returned" /\ dPc = "returned")

\* C22: when the edge input channel Line.C is closed, the goroutine of the
\* Manchester decoder and then the goroutine of the framer terminate; neither
\* stays blocked.
C22_CancellationPropagates ==
    (~lineOpen) ~> (dPc = "returned" /\ fPc = "returned")

\* C23: the edge task is never held up by a full buffer: when the handler
\* has an event for the full Line.C it can still put it there (the oldest
\* event making room and the decoder being told with Invalid).
C23_FullBufferDropsOldest ==
    (lineOpen /\ evIdx <= Len(events) /\ Len(lineC) = LineCap)
        => ENABLED EdgeHandler

\* C24: an event that arrives less than the debounce period after the
\* previous event of the line is not sent on Line.C; any other event is sent,
\* so with debounce period 0 every event is forwarded, in arrival order.
C24_DebounceDropsLaterEvent ==
    [][ EdgeHandler =>
          /\ lineC' = IF events[evIdx].Timestamp - lastEvent < debounce
                      THEN lineC
                      ELSE Append(lineC, events[evIdx])
          /\ debounce = 0 => sent' = SubSeq(events, 1, evIdx) ]_vars

\* C25: the first edge after more than the stall window without an edge
\* finds the decoder restarted in discoverClock: the edge is a sample for the
\* new clock estimate and no symbol is decoded from it.
C25_StallRestartsDiscovery ==
    [][ (LineEdge /\ evIdx > 1
           /\ events[evIdx].Timestamp - lastTimestamp > StallWindow)
          => /\ mState' = "discoverClock"
             /\ Len(eventSamples') <= 1
             /\ emitted' = emitted ]_vars

----------------------------------------------------------------------------
(* Claims about the transitions of the framer.                             *)

\* C26: while synchronized, a High symbol at rxBit 0 completes the frame: the
\* bytes received stay in the buffer, rl is released, syncCounter becomes 1
\* and the state synchronizing; from there every High counts one more and a
\* Low starts the next frame exactly when 16 are counted, that is after 15
\* more High symbols.
C26_HighAtBitZeroCompletesFrame ==
    [][ /\ (state = "synchronized" /\ rxBit = 0 /\ FramerStep(High))
              => /\ rxBuffer' = rxBuffer
                 /\ rl = "framer"
                 /\ rl' = "free"
                 /\ syncCounter' = 1
                 /\ state' = "synchronizing"
        /\ (state = "synchronizing" /\ FramerStep(High))
              => (syncCounter' = syncCounter + 1 /\ state' = "synchronizing")
        /\ (state = "synchronizing" /\ FramerStep(Low))
              => ((state' = "synchronized") <=> (syncCounter >= SyncBits)) ]_vars

\* C26 witness: a frame of two bytes has just been completed by a High at
\* rxBit 0.
C26_Witness ==
    /\ state = "synchronizing"
    /\ syncCounter = 1
    /\ awaitRun = 1
    /\ rxBit = 0
    /\ rl = "free"
    /\ Len(rxBuffer) = 2
    /\ rxBuffer = lastFrame

\* C27: while synchronized, a Low symbol at rxBit 9 (no stop bit) empties the
\* buffer, all bytes of the frame included, releases rl, sets syncCounter to
\* 0 and the state to synchronizing; no frame is then available, and a Read
\* that finds no frame available returns (0, io.EOF).
C27_MissingStopBitDiscardsFrame ==
    [][ /\ (state = "synchronized" /\ rxBit = 9 /\ FramerStep(Low))
              => /\ rxBuffer' = <<>>
                 /\ rl = "framer"
                 /\ rl' = "free"
                 /\ syncCounter' = 0
                 /\ state' = "synchronizing"
                 /\ ~avail'
        /\ (ReadCheck /\ ~avail) => (rdN' = 0 /\ rdErr' = "EOF") ]_vars

\* C27 witness: a frame has been given up where the stop bit of its second
\* byte was due, while a reader waited since its first byte: that byte is
\* gone from the buffer, rl is free and no frame is available.
C27_Witness ==
    /\ state = "synchronizing"
    /\ rxBit = 9
    /\ syncCounter = 0
    /\ rxBuffer = <<>>
    /\ rl = "free"
    /\ ~avail
    /\ rdPc = "lock"
    /\ blockedBits >= 19

\* C28: in either state and at every rxBit an Invalid symbol empties the
\* buffer, sets syncCounter to 0 and leaves the framer synchronizing; rl is
\* released, once, exactly when the framer was synchronized and so held it.
C28_InvalidResetsFramer ==
    [][ FramerStep(Invalid)
          => /\ rxBuffer' = <<>>
             /\ syncCounter' = 0
             /\ state' = "synchronizing"
             /\ IF state = "synchronized"
                THEN rl = "framer" /\ rl' = "free"
                ELSE rl' = rl ]_vars

\* C28 witness: an Invalid symbol in the middle of the second byte of a frame
\* has released rl, for which a reader had waited since the first byte.
C28_Witness ==
    /\ state = "synchronizing"
    /\ rxBit \in 2..8
    /\ syncCounter = 0
    /\ rxBuffer = <<>>
    /\ rl = "free"
    /\ rdPc = "lock"
    /\ blockedBits >= 12

\* C29: the framer holds rl exactly while it is synchronized, and every
\* access to the buffer is made by a goroutine that holds rl: reset (run on
\* Invalid) by the framer, the test, the copy and the truncation by Read.
C29_MutexDiscipline ==
    [][ /\ (rl' = "framer") <=> (state' = "synchronized")
        /\ FramerStep(Invalid) => rl = "framer"
        /\ (ReadCheck \/ ReadCopy \/ ReadClear) => rl = "reader" ]_vars

\* C30: rxBit is always in 0..9, and the buffer grows only by the byte in
\* rxRegister, on a High symbol at rxBit 9 while synchronized, after which
\* rxBit is 0.
C30_BitIndexInvariant ==
    /\ [](rxBit \in 0..9)
    /\ [][ /\ (state = "synchronized" /\ rxBit = 9 /\ FramerStep(High))
                 => (rxBuffer' = Append(rxBuffer, rxRegister) /\ rxBit' = 0)
           /\ Len(rxBuffer') > Len(rxBuffer)
                 => /\ state = "synchronized"
                    /\ rxBit = 9
                    /\ highRun' > 0
                    /\ rxBuffer' = Append(rxBuffer, rxRegister)
                    /\ rxBit' = 0 ]_vars

\* C30 witness: the second byte of a frame, one with a data bit set, has just
\* been appended.
C30_Witness ==
    /\ state = "synchronized"
    /\ rxBit = 0
    /\ Len(rxBuffer) = 2
    /\ rxBuffer[2] = rxRegister
    /\ rxRegister # 0
    /\ highRun >= 1

\* the decoder has taken an event in this step; the time since the event
\* before it, and the interval interval = ((elapsed - sensitivity) / T) + 1
\* measured from the last event and from the reference
Took == edge' # edge
elapsed == edge'.Timestamp - lastTimestamp
IntervalSinceEvent == TruncDiv(elapsed - Sensitivity, SignalT) + 1
IntervalSinceReference ==
    TruncDiv(edge'.Timestamp - lastPeriodTimestamp - Sensitivity, SignalT) + 1

\* the interval of the event before the last one, while synchronized
PreviousInterval == IF lastInterval = <<>> THEN 0 ELSE lastInterval[Len(lastInterval)]

C32_SynchronizedOnlyOnIntervalTwo ==
    [][ (mState = "synchronizing" /\ Took)
          => /\ emitted' = emitted
             /\ mState' \in {"synchronizing", "synchronized"}
             /\ (mState' = "synchronized")
                   <=> (IntervalSinceEvent = 2 /\ edge'.Type = FallingEdge) ]_vars

\* C33: while synchronized, after an event of interval 2, an event of
\* interval 1 or 3 emits exactly one symbol, High for a falling and Low for a
\* rising edge, and sets the reference to its timestamp less SignalT; an
\* event of interval 2 emits nothing and sets the reference to its timestamp;
\* the decoder stays synchronized in both cases.
C33_LegalSteps ==
    [][ (mState = "synchronized" /\ Took /\ PreviousInterval = 2)
          => /\ IntervalSinceReference \in {1, 3}
                  => /\ emitted' = Append(emitted,
                                          IF edge'.Type = FallingEdge THEN High
                                          ELSE Low)
                     /\ lastPeriodTimestamp' = edge'.Timestamp - SignalT
                     /\ mState' = "synchronized"
             /\ IntervalSinceReference = 2
                  => /\ emitted' = emitted
                     /\ lastPeriodTimestamp' = edge'.Timestamp
                     /\ mState' = "synchronized" ]_vars

\* C33 witness: after an event of interval 2 a falling edge of interval 1 has
\* emitted High, the first symbol since the decoder synchronized.
C33_Witness ==
    /\ mState = "synchronized"
    /\ lastInterval = <<2, 1>>
    /\ edge.Type = FallingEdge
    /\ emitted = <<High>>
    /\ lastPeriodTimestamp = edge.Timestamp - SignalT

\* C34: while synchronized, an event of interval 1, 2 or 3 after an event of
\* interval 1 or 3 emits Invalid, and nothing else, and the decoder goes to
\* synchronizing.
C34_AlternationViolation ==
    [][ (/\ mState = "synchronized"
         /\ Took
         /\ PreviousInterval \in {1, 3}
         /\ IntervalSinceReference \in {1, 2, 3})
          => /\ emitted' = Append(emitted, Invalid)
             /\ mState' = "synchronizing" ]_vars

\* C35: while synchronized, an event whose interval is not 1, 2 or 3 emits
\* exactly one Invalid and the decoder goes to synchronizing; a symbol is
\* only ever emitted by an event that finds the decoder synchronized.
C35_OutOfRangeInterval ==
    [][ /\ (mState = "synchronized" /\ Took /\ IntervalSinceReference \notin {1, 2, 3})
              => /\ emitted' = Append(emitted, Invalid)
                 /\ mState' = "synchronizing"
        /\ emitted' # emitted => mState = "synchronized" ]_vars

\* C35 witness: an event of interval 4 or more and one of interval 0 or less
\* have each emitted Invalid, the decoder having synchronized again in
\* between; it is synchronizing.
C35_Witness ==
    /\ mState = "synchronizing"
    /\ emitted = <<Invalid, Invalid>>
    /\ lastInterval # <<>>
    /\ lastInterval[Len(lastInterval)] <= 0
    /\ edge.Timestamp < lastPeriodTimestamp

\* the samples calcBitPeriods works on: sorted, less the lowest and the highest
Kept == LET sorted == sortSlice(collected) IN SubSeq(sorted, 2, Len(sorted) - 1)

RECURSIVE SumOver(_, _)
SumOver(q, I) ==
    IF I = {} THEN 0
    ELSE LET i == CHOOSE i \in I : TRUE IN q[i] + SumOver(q, I \ {i})

\* the mean, rounded down, of the entries of q at the indices I
MeanOver(q, I) == SumOver(q, I) \div Cardinality(I)

\* C36, as stated: T being the smallest of the samples that remain, the
\* half-bit period returned is the mean of exactly the remaining samples not
\* greater than 1.5 T, and the full-bit period the mean of the others.
C36_ClassifiedByFirstEstimate ==
    Len(collected) = CalcLen =>
        LET T == Kept[1]
            full == {i \in 1..Len(Kept) : 2 * Kept[i] > 3 * T}
            half == (1..Len(Kept)) \ full
        IN  /\ SignalT = MeanOver(Kept, half)
            /\ full # {} => calcBitPeriods(collected).full = MeanOver(Kept, full)

\* C36, amended: T is the half-bit estimate as it stands when a sample is
\* classified (the mean of the samples classified as half-bit so far), so
\* that the half-bit period H returned is the mean of exactly the remaining
\* samples not greater than H + H / 2, the full-bit period is the mean of the
\* others, and the smallest remaining sample is always among the former.
C36_ClassifiedByRunningEstimate ==
    Len(collected) = CalcLen =>
        LET H == SignalT
            full == {i \in 1..Len(Kept) : Kept[i] > H + H \div 2}
            half == (1..Len(Kept)) \ full
        IN  /\ 1 \in half
            /\ H = MeanOver(Kept, half)
            /\ full # {} => calcBitPeriods(collected).full = MeanOver(Kept, full)
            /\ full = {} => calcBitPeriods(collected).full = 2 * Kept[1]

\* C36 witness: of the samples 10, 14 and 18 that remain, 18 is more than 1.5
\* times the smallest but not more than 1.5 times the mean of 10 and 14: all
\* three are half bit periods, with mean 14.
C36_Witness ==
    /\ Len(collected) = CalcLen
    /\ Kept = <<10, 14, 18>>
    /\ SignalT = 14
    /\ mState = "synchronizing"

\* C38: a Read returns bytes only of a frame that was completed and not yet
\* returned, and returning them consumes it; a frame becomes available again
\* only by the framer completing one; a Read that finds none available
\* returns 0 bytes and io.EOF.
C38_ReadConsumesFrame ==
    [][ /\ (ReadCheck /\ ~avail) => (rdN' = 0 /\ rdErr' = "EOF" /\ rdPc' = "unlock")
        /\ (ReadCopy /\ rdN' > 0) => (avail /\ ~avail' /\ rdOut' = lastFrame)
        /\ (avail' /\ ~avail)
              => /\ state = "synchronized"
                 /\ state' = "synchronizing"
                 /\ lastFrame' = curFrame ]_vars

\* C38 witness: a Read returns io.EOF; the last frame was completed a few
\* symbols ago, all High since then, and was returned by a Read in between.
C38_Witness ==
    /\ rdPc = "unlock"
    /\ rdErr = "EOF"
    /\ rdN = 0
    /\ state = "synchronizing"
    /\ lastFrame # <<>>
    /\ ~avail
    /\ rxBuffer = <<>>
    /\ awaitRun >= 1
    /\ awaitRun < highRun

\* C39: an Invalid symbol that the framer receives while synchronizing
\* empties the buffer, whoever holds rl, so that a completed frame not yet
\* read is gone although no newer frame has been completed; a Read that
\* takes rl afterwards finds the buffer empty (and returns io.EOF).
C39_InvalidDiscardsUnreadFrame ==
    /\ []((rdPc = "check" /\ ~avail) => rxBuffer = <<>>)
    /\ [][ (FramerStep(Invalid) /\ state = "synchronizing")
              => /\ rxBuffer' = <<>>
                 /\ ~avail'
                 /\ rl' = rl
                 /\ state' = "synchronizing"
                 /\ lastFrame' = lastFrame ]_vars

\* C39 witness: a reader holding rl has found a completed frame in the
\* buffer; before it copies the frame an Invalid symbol has emptied the
\* buffer.
C39_Witness ==
    /\ rdPc = "copy"
    /\ rl = "reader"
    /\ state = "synchronizing"
    /\ rxBuffer = <<>>
    /\ lastFrame # <<>>
    /\ ~avail
    /\ syncCounter = 0

\* C37: in every interleaving of the framer goroutine, Read and App.Close,
\* which closes the framer twice, rl is never unlocked while it is unlocked
\* (a fatal error of the runtime, in Close, in the framer or in Read) and
\* nothing is sent on the closed quit channel (a panic in Close).
C37_NoPanicInShutdown ==
    /\ cPc # "panic"
    /\ cPc # "fatal"
    /\ fPc # "fatal"
    /\ rdPc # "fatal"

\* C40: the gate's reference M (mqttData) is the initial zero frame until a
\* pass of the service loop in which Get succeeds changes it, and then to the
\* frame that this pass stores in the snapshot (DataFrame); M's timestamp is
\* never later than the snapshot's.
C40_GateReferenceProvenance ==
    /\ [](mqttData = ZeroFrame \/ mqttData.TimeStamp <= DataFrame.TimeStamp)
    /\ [](DataFrame = ZeroFrame => mqttData = ZeroFrame)
    /\ [][ mqttData' # mqttData
              => /\ got'.err = "nil"
                 /\ mqttData' = DataFrame'
                 /\ mqttData' = got'.f ]_vars

\* C40 witness: the snapshot holds a frame that was not published; M is an
\* older frame, which was in the snapshot before.
C40_Witness ==
    /\ got.err = "nil"
    /\ mqttData # ZeroFrame
    /\ mqttData # DataFrame
    /\ mqttData.TimeStamp < DataFrame.TimeStamp
    /\ got.before.TimeStamp >= mqttData.TimeStamp
    /\ DataFrame = got.f
====
